---- MODULE Spec2Model ----
(***************************************************************************)
(* A model of proxyrotator: the upstream pool (internal/pool), the rotator *)
(* (internal/rotator/rotator.go), the health monitor's check and the       *)
(* forwarding path of the local proxy server (handleCONNECT / handleHTTP). *)
(*                                                                         *)
(* Goroutines are modelled at the granularity of their synchronisation:    *)
(* a step ends where another goroutine can observe or change what the      *)
(* code reads next (a mutex acquisition, an atomic counter operation, a    *)
(* channel operation).                                                     *)
(***************************************************************************)
EXTENDS Integers, Sequences, FiniteSets, TLC

\* ------------------------------------------------------------------ bounds

\* Largest number of upstream records a proxy file holds (ids 1.., file order).
NProxies == 3

\* Number of lines of the proxy file in the scenarios with clients.
SmallPool == 2

\* Number of client connections the forwarder accepts in a run.
NConns == 2

\* Number of goroutines calling ProxyFor over and over in the pinning scenario.
NCallers == 2

\* Rotations in a run: /api/rotate is not called once generation plus the
\* triggers pending (on rotateCh or in the batch being served) reaches MaxGen.
MaxGen == 4

\* Number of direct RecordRequest / RecordConnError / RecordHTTPError calls
\* in a run of the scenarios that make them.
MaxCalls == 5

\* Largest value of the wall clock (the runs start at 1).
MaxTime == 5

\* Number of direct RecordRequest / RecordConnError calls in a run of the
\* trigger scenario: enough to fill rotateCh.
MaxBurst == 20

\* ------------------------------------------------------- program constants

\* make(chan string, 16)
RotateChCap == 16

\* ---------------------------------------------------------------- universe

Proxies == 1..NProxies
Conns == 1..NConns
Callers == 1..NCallers

\* A nil *pool.Proxy.
Nil == 0

\* The zero time.Time.
ZeroTime == 0

\* Host names as the forwarder reads them from the request: sequences of
\* characters; ":" separates the port.
Hosts == { <<"A", ":", "1">>, <<"a", ":", "2">>, <<"b">> }

Methods == { "CONNECT", "GET" }

\* A request without a Proxy-Authorization header (Header.Get gives "").
NoHeader == [scheme |-> "", valid |-> FALSE, text |-> <<>>]

\* The Proxy-Authorization headers clients send: the scheme word, whether
\* the payload is valid base64, and the text it decodes to.
Headers ==
    { NoHeader,
      [scheme |-> "Bearer", valid |-> TRUE, text |-> <<"u", ":", "p", ":", "x">>],
      [scheme |-> "Basic", valid |-> FALSE, text |-> <<"u", ":", "p", ":", "x">>],
      [scheme |-> "Basic", valid |-> TRUE, text |-> <<"u", ":", "p", ":", "x">>],
      [scheme |-> "Basic", valid |-> TRUE, text |-> <<"u", ":", "p">>],
      [scheme |-> "Basic", valid |-> TRUE, text |-> <<"v", ":", "p", ":", "x">>],
      [scheme |-> "Basic", valid |-> TRUE, text |-> <<"u">>] }

\* The forwarder's credentials as runStart parses --auth: none, or a
\* non-empty user name without a colon and a non-empty password (here one
\* with a colon in it).
NoCredentials == [Username |-> <<>>, Password |-> <<>>]

SomeCredentials == [Username |-> <<"u">>, Password |-> <<"p", ":", "x">>]

\* The requests clients make: <<host, method>>.
Requests == { << <<"A", ":", "1">>, "CONNECT" >>,
              << <<"a", ":", "2">>, "GET" >>,
              << <<"b">>, "CONNECT" >> }

VARIABLES
    \* pool.Pool / pool.Proxy
    file,           \* the lines of the proxy list file
    loadErr,        \* what LoadFile returned ("pending": not called yet)
    nextID,         \* Pool.nextID
    Scheme,         \* Proxy.Scheme
    Host,           \* Proxy.Host
    proxies,        \* Pool.proxies: the loaded records, in file order
    latencySort,    \* Pool.latencySort
    alive,          \* Proxy.alive
    latency,        \* Proxy.latency
    activeConns,    \* Proxy.ActiveConns
    reqCount,       \* Proxy.ReqCount
    connErrors,     \* Proxy.ConnErrors
    httpErrors,     \* Proxy.HTTPErrors
    \* rotator.Rotator
    cfg,            \* Rotator.cfg
    mu,             \* Rotator.mu: TRUE while the write lock is held
    current,        \* Rotator.current
    generation,     \* Rotator.generation
    rotatedAt,      \* Rotator.rotatedAt
    recent,         \* Rotator.recentHTTPErrors: domain -> time, ZeroTime for no entry
    pins,           \* Rotator.pins: domain -> proxy
    pinsMu,         \* Rotator.pinsMu: the connection holding it, or Nil
    rotateCh,       \* Rotator.rotateCh: buffered channel of reasons
    stop,           \* Rotator.stop: TRUE once closed
    now,            \* the wall clock
    \* the rotationLoop goroutine
    wpc,            \* its position
    wreason,        \* its local `reason` (the coalesced reasons, in order)
    wprev,          \* pickNext's local `prev`
    ipc,            \* position of the intervalLoop goroutine ("off": not launched)
    \* the forwarder's connection goroutines
    pc,             \* position of each connection
    dest,           \* local `destination`
    method,         \* request method
    hdr,            \* the Proxy-Authorization header of the request
    px,             \* local `px`: the proxy ProxyFor returned
    via,            \* the proxy the upstream connection was dialled through
    rcur,           \* local `cur` of RecordRequest / RecordConnError / RecordHTTPError
    hrot,           \* local `rotatedAt` of RecordHTTPError
    gen0,           \* local `genBefore` of handleStatus, 0 outside the handler
    resp,           \* status line the forwarder wrote to the client, if any
    updateLiveness, \* monitor.Config.UpdateLiveness
    srvCfg,         \* the forwarder's Config: Username and Password
    \* history
    clean,          \* per connection: its ProxyFor call began with no rotation in
                    \* progress and none has begun since
    last,           \* per domain: what such calls returned since the last rotation began
    pinned,         \* per domain: the proxy ProxyFor last pinned it to
    counted,        \* per domain: when the last report that raised HTTPErrors passed the dedup test
    errGen,         \* generation when pickNext last returned its error, 0 if it never did
    repeat,         \* per connection: such a call returned after an earlier one for its domain
    sent,           \* per connection: its RecordHTTPError call has sent a trigger
    waiting,        \* events on rotateCh when rotationLoop took the one it is serving
    batchGen,       \* generation when rotationLoop took the event it is serving
    calls           \* number of direct Record* calls and interval ticks so far

fileVars == <<file, loadErr, nextID, Scheme, Host>>
poolVars == <<fileVars, proxies, latencySort, alive, latency, updateLiveness>>
counterVars == <<activeConns, reqCount, connErrors, httpErrors>>
rotVars == <<cfg, mu, current, generation, rotatedAt, recent, now>>
pinVars == <<pins, pinsMu>>
chanVars == <<rotateCh, stop>>
workerVars == <<wpc, wreason, wprev, ipc>>
connVars == <<pc, dest, method, hdr, px, via, rcur, hrot, gen0, resp>>
histVars == <<clean, last, pinned, counted, errGen, repeat, sent, waiting, batchGen,
             calls>>

vars == <<srvCfg, poolVars, counterVars, rotVars, pinVars, chanVars, workerVars,
          connVars, histVars>>

\* ---------------------------------------------------------------- helpers

RECURSIVE LastIndex(_, _)
\* strings.LastIndex(s, ch): 1-based position of the last ch in s, 0 if none.
LastIndex(s, ch) ==
    IF Len(s) = 0 THEN 0
    ELSE IF s[Len(s)] = ch THEN Len(s)
    ELSE LastIndex(SubSeq(s, 1, Len(s) - 1), ch)

\* strings.ToLower on one character of the alphabet.
LowerChar(ch) ==
    CASE ch = "A" -> "a"
      [] ch = "B" -> "b"
      [] OTHER -> ch

\* strings.ToLower
ToLower(s) == [i \in 1..Len(s) |-> LowerChar(s[i])]

\* A variant of extractDomain that keeps the letter case.
extractDomain_KeepCase(destination) ==
    LET idx == LastIndex(destination, ":")
    IN  IF idx = 0 THEN destination
        ELSE SubSeq(destination, 1, idx - 1)

\* extractDomain(destination)
extractDomain(destination) ==
    LET idx == LastIndex(destination, ":")
    IN  IF idx = 0 THEN ToLower(destination)
        ELSE ToLower(SubSeq(destination, 1, idx - 1))

\* hasPort(host): net.SplitHostPort succeeds
hasPort(host) == LastIndex(host, ":") > 0

\* The destination handleCONNECT / handleHTTP compute from the request.
Destination(host, m) ==
    IF hasPort(host) THEN host
    ELSE IF m = "CONNECT" THEN host \o <<":", "443">>
    ELSE host \o <<":", "80">>

Domains == { extractDomain(Destination(h, m)) : h \in Hosts, m \in Methods }

RECURSIVE FilterAlive_Reversed(_, _)
\* A variant of the filtering loop that prepends: the alive records of ps,
\* last first.
FilterAlive_Reversed(ps, al) ==
    IF Len(ps) = 0 THEN <<>>
    ELSE IF al[Head(ps)] THEN FilterAlive_Reversed(Tail(ps), al) \o <<Head(ps)>>
    ELSE FilterAlive_Reversed(Tail(ps), al)

RECURSIVE FilterAlive(_, _)
\* The filtering loop of Pool.Alive: the alive records of ps, in order.
FilterAlive(ps, al) ==
    IF Len(ps) = 0 THEN <<>>
    ELSE IF al[Head(ps)] THEN <<Head(ps)>> \o FilterAlive(Tail(ps), al)
    ELSE FilterAlive(Tail(ps), al)

\* A variant of the comparator without the two tests for zero.
LatencyLess_Plain(li, lj) == li < lj

\* The comparator Pool.Alive hands to sort.Slice.
LatencyLess(li, lj) ==
    IF li = 0 THEN FALSE
    ELSE IF lj = 0 THEN TRUE
    ELSE li < lj

\* The permutations of sequence s.
Perms(s) ==
    { t \in [1..Len(s) -> {s[i] : i \in 1..Len(s)}] :
        \A x \in {s[i] : i \in 1..Len(s)} :
            Cardinality({i \in 1..Len(s) : t[i] = x}) = 1 }

\* A variant of Pool.Alive without the filter: every record, in file order.
PoolAlive_All(ps, al, lat, srt) == { ps }

\* Pool.Alive(): the possible results. sort.Slice is not a stable sort, so
\* with latencySort every ordering the comparator admits is a result.
PoolAlive(ps, al, lat, srt) ==
    LET out == FilterAlive(ps, al)
    IN  IF srt /\ Len(out) > 1
        THEN { t \in Perms(out) :
                 \A i, j \in 1..Len(t) :
                     i < j => ~LatencyLess(lat[t[j]], lat[t[i]]) }
        ELSE { out }

RECURSIVE IndexOf(_, _, _)
\* The search loop of pickNext: 0-based index of p in s from position i, -1 if absent.
IndexOf(s, p, i) ==
    IF i > Len(s) THEN -1
    ELSE IF s[i] = p THEN i - 1
    ELSE IndexOf(s, p, i + 1)

\* A variant of the index computation that never advances.
NextIndex_Restart(cur, snap) == 0

\* pickNext lines 289-308: the new poolIndex (0-based).
NextIndex(cur, snap) ==
    IF cur = Nil THEN 0
    ELSE LET found == IndexOf(snap, cur, 1)
         IN  IF found >= 0 THEN (found + 1) % Len(snap) ELSE 0

\* The records of the pool (Pool.All, as a set).
Loaded == {proxies[i] : i \in DOMAIN proxies}

\* ------------------------------------------------------------ the rotator

\* pickNext lines 289-308 applied to r.current: the value r.poolIndex gets.
\* The field is read only by line 311, right after, so the model keeps no
\* variable for it.
PickIndex(snap) == NextIndex(current, snap)

\* pickNext line 311: the proxy that becomes current.
PickTarget(snap) == snap[PickIndex(snap) + 1]

\* A variant of the generation step that counts a pick twice.
NextGeneration_Twice(g) == g + 2

\* pickNext line 312: r.generation++.
NextGeneration(g) == g + 1

\* A variant of the stamp that also stamps the startup pick.
StampRotatedAt_Always(prev) == now

\* pickNext lines 316-318: rotatedAt is stamped only when prev is not nil.
StampRotatedAt(prev) == IF prev # Nil THEN now ELSE rotatedAt

\* Proxy.ResetErrorCounters on proxy p, for the counter f.
ResetCounter(f, p) == [f EXCEPT ![p] = 0]

\* A variant of the purge that tests the pin against the new proxy instead
\* of the old one.
PurgePins_Cur(ps, prev, cur) ==
    IF prev # Nil /\ prev # cur
    THEN [d \in DOMAIN ps |-> IF ps[d] = cur THEN Nil ELSE ps[d]]
    ELSE ps

\* A variant of pickNext without the purge.
PurgePins_Keep(ps, prev, cur) == ps

\* pickNext lines 324-332: the pins left after a rotation from prev to cur.
PurgePins(ps, prev, cur) ==
    IF prev # Nil /\ prev # cur
    THEN [d \in DOMAIN ps |-> IF ps[d] = prev THEN Nil ELSE ps[d]]
    ELSE ps

\* pickNext lines 280-321 called by rotationLoop: take the alive snapshot;
\* with none alive return the error (the loop logs it and goes on), else
\* take r.mu and switch current. The snapshot is taken before the lock; no
\* step of another goroutine reads or writes what lies between the two.
PickNextLock ==
    /\ wpc = "pick"
    /\ ~mu
    /\ \E snap \in PoolAlive(proxies, alive, latency, latencySort) :
         IF Len(snap) = 0
         THEN /\ wpc' = "select"
              /\ wreason' = <<>>
              /\ waiting' = 0
              /\ batchGen' = 0
              /\ errGen' = generation
              /\ UNCHANGED <<mu, current, generation, rotatedAt, wprev,
                             reqCount, connErrors, httpErrors, clean, last>>
         ELSE /\ mu' = TRUE
              /\ wprev' = current
              /\ current' = PickTarget(snap)
              /\ generation' = NextGeneration(generation)
              /\ rotatedAt' = StampRotatedAt(current)
              /\ reqCount' = ResetCounter(reqCount, PickTarget(snap))
              /\ connErrors' = ResetCounter(connErrors, PickTarget(snap))
              /\ httpErrors' = ResetCounter(httpErrors, PickTarget(snap))
              /\ wpc' = "unlock"
              /\ clean' = [c \in Conns |-> FALSE]
              /\ last' = [d \in Domains |-> Nil]
              /\ UNCHANGED <<wreason, waiting, batchGen, errGen>>
    /\ UNCHANGED <<srvCfg, poolVars, activeConns, cfg, now, recent, pinVars, chanVars, connVars,
                   ipc, pinned, counted, repeat, sent, calls>>

\* pickNext lines 324-347: purge the pins of the proxy rotated out (under
\* r.pinsMu, when there is one), then the deferred r.mu.Unlock(); the loop
\* goes back to its select.
PickNextUnlock ==
    /\ wpc = "unlock"
    /\ (wprev # Nil /\ wprev # current) => pinsMu = Nil
    /\ pins' = PurgePins(pins, wprev, current)
    /\ mu' = FALSE
    /\ wpc' = "select"
    /\ wreason' = <<>>
    /\ wprev' = Nil
    /\ waiting' = 0
    /\ batchGen' = 0
    /\ UNCHANGED <<srvCfg, poolVars, counterVars, cfg, current, generation, rotatedAt,
                   now, recent, pinsMu, chanVars, connVars, ipc, clean, last, pinned,
                   counted, errGen, repeat, sent, calls>>

\* rotationLoop line 243: take one reason off rotateCh.
LoopReceive ==
    /\ wpc = "select"
    /\ Len(rotateCh) > 0
    /\ wreason' = <<Head(rotateCh)>>
    /\ rotateCh' = Tail(rotateCh)
    /\ waiting' = Len(rotateCh)
    /\ batchGen' = generation
    /\ wpc' = "drain"
    /\ UNCHANGED <<srvCfg, poolVars, counterVars, rotVars, pinVars, stop, wprev, ipc, connVars,
                   clean, last, pinned, counted, errGen, repeat, sent, calls>>

\* rotationLoop lines 247-250: one more pending reason joins the batch.
LoopDrain ==
    /\ wpc = "drain"
    /\ Len(rotateCh) > 0
    /\ wreason' = Append(wreason, Head(rotateCh))
    /\ rotateCh' = Tail(rotateCh)
    /\ UNCHANGED <<srvCfg, poolVars, counterVars, rotVars, pinVars, stop, wpc, wprev, ipc,
                   connVars, histVars>>

\* A variant of the loop without the drain: pickNext is called with events
\* still waiting.
LoopDrained_Early ==
    /\ wpc = "drain"
    /\ wpc' = "pick"
    /\ UNCHANGED <<srvCfg, poolVars, counterVars, rotVars, pinVars, chanVars, wreason, wprev, ipc,
                   connVars, histVars>>

\* rotationLoop lines 251-255: nothing more is pending; go on to pickNext.
LoopDrained ==
    /\ wpc = "drain"
    /\ Len(rotateCh) = 0
    /\ wpc' = "pick"
    /\ UNCHANGED <<srvCfg, poolVars, counterVars, rotVars, pinVars, chanVars, wreason,
                   wprev, ipc, connVars, histVars>>

\* The steps of the rotationLoop goroutine.
WorkerStep ==
    \/ LoopReceive
    \/ LoopDrain
    \/ LoopDrained
    \/ PickNextLock
    \/ PickNextUnlock

\* rotationLoop lines 258-259: the stop channel is closed; the loop returns.
\* With an event on rotateCh too, select takes either case.
LoopExit ==
    /\ wpc = "select"
    /\ stop
    /\ wpc' = "exit"
    /\ UNCHANGED <<srvCfg, poolVars, counterVars, rotVars, pinVars, chanVars, wreason, wprev, ipc,
                   connVars, histVars>>

\* Stop line 229: close(r.stop).
Stop ==
    /\ ~stop
    /\ stop' = TRUE
    /\ UNCHANGED <<srvCfg, poolVars, counterVars, rotVars, pinVars, rotateCh, workerVars,
                   connVars, histVars>>

\* ForceRotate: a blocking send of "manual" on rotateCh.
ForceRotate ==
    /\ generation + Len(rotateCh) + Len(wreason) < MaxGen
    /\ Len(rotateCh) < RotateChCap
    /\ rotateCh' = Append(rotateCh, "manual")
    /\ UNCHANGED <<srvCfg, poolVars, counterVars, rotVars, pinVars, stop, workerVars,
                   connVars, histVars>>

\* ------------------------------------------------------------ the monitor

\* A variant of Monitor.check that sets the liveness whatever UpdateLiveness
\* says.
MonitorCheck_Ungated(p, ok, lat) ==
    /\ alive' = [alive EXCEPT ![p] = ok]
    /\ latency' = [latency EXCEPT ![p] = IF ok THEN lat ELSE 0]
    /\ UNCHANGED <<srvCfg, fileVars, proxies, latencySort, updateLiveness, counterVars, rotVars,
                   pinVars, chanVars, workerVars, connVars, histVars>>

\* Monitor.check on proxy p with probe outcome ok and measured latency lat.
MonitorCheck(p, ok, lat) ==
    /\ alive' = IF updateLiveness THEN [alive EXCEPT ![p] = ok] ELSE alive
    /\ latency' = [latency EXCEPT ![p] = IF ok THEN lat ELSE 0]
    /\ UNCHANGED <<srvCfg, fileVars, proxies, latencySort, updateLiveness, counterVars, rotVars,
                   pinVars, chanVars, workerVars, connVars, histVars>>

\* ---------------------------------------------------------- the forwarder

\* The pin key of the connection's destination (ProxyFor line 120).
DomainOf(c) == extractDomain(dest[c])

\* The position of the first ch in s, 0 if there is none (strings.SplitN
\* with n = 2 cuts there).
FirstIndex(s, ch) ==
    IF \E i \in 1..Len(s) : s[i] = ch
    THEN CHOOSE i \in 1..Len(s) : s[i] = ch /\ \A j \in 1..(i - 1) : s[j] # ch
    ELSE 0

\* Server.authRequired: both Username and Password are set.
authRequired == srvCfg.Username # <<>> /\ srvCfg.Password # <<>>

\* A variant of checkAuth that cuts the decoded text at its last colon.
checkAuth_LastColon(h) ==
    /\ h.scheme = "Basic"
    /\ h.valid
    /\ LastIndex(h.text, ":") > 0
    /\ SubSeq(h.text, 1, LastIndex(h.text, ":") - 1) = srvCfg.Username
    /\ SubSeq(h.text, LastIndex(h.text, ":") + 1, Len(h.text)) = srvCfg.Password

\* Server.checkAuth on a Proxy-Authorization header h: the "Basic " prefix,
\* a payload that decodes from base64 (h.text is the decoded payload), a
\* colon in it, and the text before and after the first colon equal to
\* Username and Password.
checkAuth(h) ==
    /\ h.scheme = "Basic"
    /\ h.valid
    /\ FirstIndex(h.text, ":") > 0
    /\ SubSeq(h.text, 1, FirstIndex(h.text, ":") - 1) = srvCfg.Username
    /\ SubSeq(h.text, FirstIndex(h.text, ":") + 1, Len(h.text)) = srvCfg.Password

\* handleConn, handleCONNECT lines 122-125 / handleHTTP lines 162-168: a
\* request for host arrives with method m; the destination gets its port.
\* The request carries header h. With credentials configured and no
\* matching header handleConn answers 407 and returns (lines 97-108).
Accept(c, host, m, h) ==
    /\ pc[c] = "idle"
    /\ method' = [method EXCEPT ![c] = m]
    /\ hdr' = [hdr EXCEPT ![c] = h]
    /\ IF authRequired /\ ~checkAuth(h)
       THEN /\ resp' = [resp EXCEPT ![c] = "407"]
            /\ pc' = [pc EXCEPT ![c] = "done"]
            /\ UNCHANGED dest
       ELSE /\ dest' = [dest EXCEPT ![c] = Destination(host, m)]
            /\ pc' = [pc EXCEPT ![c] = "select"]
            /\ UNCHANGED resp
    /\ UNCHANGED <<srvCfg, poolVars, counterVars, rotVars, pinVars, chanVars, workerVars,
                   px, via, rcur, hrot, gen0, histVars>>

\* A variant of the pin test that leaves out IsAlive.
PinValid_AnyPin(d) == pins[d] # Nil

\* ProxyFor line 125: the pin of domain d is used when it exists and its
\* proxy is alive.
PinValid(d) == pins[d] # Nil /\ alive[pins[d]]

\* ProxyFor lines 120-127: take r.pinsMu and look the pin up. A valid pin is
\* returned at once (the deferred unlock runs); otherwise the call goes on
\* to r.Current() with r.pinsMu held.
ProxyForLock(c) ==
    /\ pc[c] = "select"
    /\ pinsMu = Nil
    /\ clean' = [clean EXCEPT ![c] = ~mu]
    /\ IF PinValid(DomainOf(c))
       THEN /\ px' = [px EXCEPT ![c] = pins[DomainOf(c)]]
            /\ pc' = [pc EXCEPT ![c] = "selected"]
            /\ last' = IF ~mu THEN [last EXCEPT ![DomainOf(c)] = pins[DomainOf(c)]]
                       ELSE last
            /\ repeat' = [repeat EXCEPT ![c] = ~mu /\ last[DomainOf(c)] # Nil]
            /\ UNCHANGED pinsMu
       ELSE /\ pinsMu' = c
            /\ pc' = [pc EXCEPT ![c] = "current"]
            /\ UNCHANGED <<px, last, repeat>>
    /\ UNCHANGED sent
    /\ UNCHANGED <<srvCfg, poolVars, counterVars, rotVars, pins, chanVars, workerVars,
                   dest, method, hdr, via, rcur, hrot, gen0, resp, pinned, counted, errGen, waiting, batchGen, calls>>

\* ProxyFor lines 131-133: the pins after pinning domain d to cur.
SetPin(ps, d, cur) == IF cur # Nil THEN [ps EXCEPT ![d] = cur] ELSE ps

\* ProxyFor lines 130-134: read r.current under the read lock
\* (Rotator.Current), pin the domain to it, return it and release r.pinsMu.
\* What follows the read touches only the pins, which no other goroutine
\* can see before r.pinsMu is released, so the read and the rest are one step.
ProxyForPin(c) ==
    /\ pc[c] = "current"
    /\ ~mu
    /\ pins' = SetPin(pins, DomainOf(c), current)
    /\ px' = [px EXCEPT ![c] = current]
    /\ pinsMu' = Nil
    /\ pc' = [pc EXCEPT ![c] = "selected"]
    /\ last' = IF clean[c] THEN [last EXCEPT ![DomainOf(c)] = current] ELSE last
    /\ repeat' = [repeat EXCEPT ![c] = clean[c] /\ last[DomainOf(c)] # Nil]
    /\ UNCHANGED sent
    /\ pinned' = SetPin(pinned, DomainOf(c), current)
    /\ UNCHANGED <<srvCfg, poolVars, counterVars, rotVars, chanVars, workerVars, counted, errGen,
                   dest, method, hdr, via, rcur, hrot, gen0, resp, clean, waiting, batchGen, calls>>

\* A caller that only wanted the selection is done with it; its slot serves
\* the next call.
Return(c) ==
    /\ pc[c] = "selected"
    /\ pc' = [pc EXCEPT ![c] = "idle"]
    /\ px' = [px EXCEPT ![c] = Nil]
    /\ dest' = [dest EXCEPT ![c] = <<>>]
    /\ method' = [method EXCEPT ![c] = "CONNECT"]
    /\ hdr' = [hdr EXCEPT ![c] = NoHeader]
    /\ clean' = [clean EXCEPT ![c] = FALSE]
    /\ repeat' = [repeat EXCEPT ![c] = FALSE]
    /\ UNCHANGED sent
    /\ UNCHANGED <<srvCfg, poolVars, counterVars, rotVars, pinVars, chanVars, workerVars,
                   via, rcur, hrot, gen0, resp, last, pinned, counted, errGen, waiting, batchGen, calls>>

\* handleCONNECT lines 129-132 / handleHTTP lines 171-174: no proxy, answer 502.
NoUpstream(c) ==
    /\ pc[c] = "selected"
    /\ px[c] = Nil
    /\ resp' = [resp EXCEPT ![c] = "502"]
    /\ pc' = [pc EXCEPT ![c] = "done"]
    /\ UNCHANGED <<srvCfg, poolVars, counterVars, rotVars, pinVars, chanVars, workerVars,
                   dest, method, hdr, px, via, rcur, hrot, gen0, histVars>>

\* handleCONNECT line 137 / handleHTTP line 176: px.ActiveConns.Add(1).
TrackConn(c) ==
    /\ pc[c] = "selected"
    /\ px[c] # Nil
    /\ activeConns' = [activeConns EXCEPT ![px[c]] = @ + 1]
    /\ pc' = [pc EXCEPT ![c] = "dial"]
    /\ UNCHANGED <<srvCfg, poolVars, reqCount, connErrors, httpErrors, rotVars, pinVars,
                   chanVars, workerVars, dest, method, hdr, px, via, rcur, hrot, gen0, resp,
                   histVars>>

\* A variant of the dial that asks the rotator again instead of using the
\* proxy the handler captured.
DialTarget_Current(c) == current

\* handleCONNECT line 143 / handleHTTP line 182: the proxy upstream.Dial is
\* handed.
DialTarget(c) == px[c]

\* upstream.Dial succeeds. CONNECT acknowledges with 200; plain HTTP writes
\* the request to the upstream (here: successfully). Both go on to call
\* RecordRequest.
DialOk(c) ==
    /\ pc[c] = "dial"
    /\ via' = [via EXCEPT ![c] = DialTarget(c)]
    /\ resp' = [resp EXCEPT ![c] = IF method[c] = "CONNECT" THEN "200" ELSE @]
    /\ pc' = [pc EXCEPT ![c] = "rr_read"]
    /\ calls' = calls + 1
    /\ UNCHANGED <<srvCfg, poolVars, counterVars, rotVars, pinVars, chanVars, workerVars,
                   dest, method, hdr, px, rcur, hrot, gen0, clean, last, pinned, counted, errGen, repeat, sent, waiting,
                   batchGen>>

\* upstream.Dial fails (lines 143-145, 182-184): the handler calls
\* RecordConnError; the 502 is written once that call has returned.
DialFail(c) ==
    /\ pc[c] = "dial"
    /\ pc' = [pc EXCEPT ![c] = "ce_read"]
    /\ UNCHANGED <<srvCfg, poolVars, counterVars, rotVars, pinVars, chanVars, workerVars,
                   dest, method, hdr, px, via, rcur, hrot, gen0, resp, histVars>>

\* handleHTTP lines 195-199: the dial succeeded but writing the request to
\* the upstream fails: RecordConnError, no response.
WriteFail(c) ==
    /\ pc[c] = "dial"
    /\ method[c] # "CONNECT"
    /\ via' = [via EXCEPT ![c] = DialTarget(c)]
    /\ pc' = [pc EXCEPT ![c] = "ce_read"]
    /\ UNCHANGED <<srvCfg, poolVars, counterVars, rotVars, pinVars, chanVars, workerVars,
                   dest, method, hdr, px, rcur, hrot, gen0, resp, histVars>>

\* A variant of the error reply that answers 502 on every error path.
ErrorStatus_Always(c) == "502"

\* What the client has been answered when an error path returns: the
\* failed dial writes 502 (lines 147, 186); the failed write of the request
\* to the upstream (lines 195-198) writes nothing.
ErrorStatus(c) == IF via[c] = Nil THEN "502" ELSE resp[c]

\* RecordConnError has returned to the handler: the log line, writeError
\* on the failed-dial path, and the return (lines 146-148, 185-187, 197-198).
ErrorReply(c) ==
    /\ pc[c] = "ce_ret"
    /\ resp' = [resp EXCEPT ![c] = ErrorStatus(c)]
    /\ pc' = [pc EXCEPT ![c] = "close"]
    /\ UNCHANGED <<srvCfg, poolVars, counterVars, rotVars, pinVars, chanVars, workerVars,
                   dest, method, hdr, px, via, rcur, hrot, gen0, histVars>>

\* RecordRequest lines 145-150 / RecordConnError lines 160-165: read
\* r.current under the read lock; with none, return.
RecordRead(c, at, add, out) ==
    /\ pc[c] = at
    /\ ~mu
    /\ rcur' = [rcur EXCEPT ![c] = current]
    /\ pc' = [pc EXCEPT ![c] = IF current = Nil THEN out ELSE add]
    /\ UNCHANGED <<srvCfg, poolVars, counterVars, rotVars, pinVars, chanVars, workerVars,
                   dest, method, hdr, px, via, hrot, gen0, resp, histVars>>

\* A variant of the threshold test that fires only above the threshold.
Crossed_Exceeds(threshold, n) == threshold > 0 /\ n > threshold

\* The threshold test of RecordRequest line 152 / RecordConnError line 167.
Crossed(threshold, n) == threshold > 0 /\ n >= threshold

\* RecordRequest lines 151-152: cur.ReqCount.Add(1) and the threshold test.
RecordRequestAdd(c, at, send, out) ==
    /\ pc[c] = at
    /\ reqCount' = [reqCount EXCEPT ![rcur[c]] = @ + 1]
    /\ rcur' = [rcur EXCEPT ![c] = Nil]
    /\ pc' = [pc EXCEPT ![c] =
                IF Crossed(cfg.RotateRequests, reqCount'[rcur[c]])
                THEN send ELSE out]
    /\ UNCHANGED <<srvCfg, poolVars, activeConns, connErrors, httpErrors, rotVars, pinVars,
                   chanVars, workerVars, dest, method, hdr, px, via, hrot, gen0, resp, histVars>>

\* RecordConnError lines 166-167: cur.ConnErrors.Add(1) and the threshold test.
RecordConnErrorAddAt(c, at, send, out) ==
    /\ pc[c] = at
    /\ connErrors' = [connErrors EXCEPT ![rcur[c]] = @ + 1]
    /\ rcur' = [rcur EXCEPT ![c] = Nil]
    /\ pc' = [pc EXCEPT ![c] =
                IF Crossed(cfg.RotateConnErrors, connErrors'[rcur[c]])
                THEN send ELSE out]
    /\ UNCHANGED <<srvCfg, poolVars, activeConns, reqCount, httpErrors, rotVars, pinVars,
                   chanVars, workerVars, dest, method, hdr, px, via, hrot, gen0, resp, histVars>>

\* The same step in a connection of the forwarder.
RecordConnErrorAdd(c) == RecordConnErrorAddAt(c, "ce_add", "ce_send", "ce_ret")

\* RecordRequest line 153 / RecordConnError line 168: the blocking send of
\* the trigger on rotateCh.
RecordSend(c, at, reason, out) ==
    /\ pc[c] = at
    /\ Len(rotateCh) < RotateChCap
    /\ rotateCh' = Append(rotateCh, reason)
    /\ pc' = [pc EXCEPT ![c] = out]
    /\ UNCHANGED <<srvCfg, poolVars, counterVars, rotVars, pinVars, stop, workerVars,
                   dest, method, hdr, px, via, rcur, hrot, gen0, resp, histVars>>

\* A variant of the deferred decrement that lands on the rotator's current
\* proxy instead of the captured one.
ReleaseTarget_Current(c) == current

\* The proxy whose ActiveConns the deferred Add(-1) decrements
\* (handleCONNECT line 138 / handleHTTP line 177).
ReleaseTarget(c) == px[c]

\* The connection ends (the tunnel returns, or an error path returns): the
\* upstream connection is closed and the deferred px.ActiveConns.Add(-1) runs.
Release(c, at) ==
    /\ pc[c] = at
    /\ activeConns' = [activeConns EXCEPT ![ReleaseTarget(c)] = @ - 1]
    /\ via' = [via EXCEPT ![c] = Nil]
    /\ px' = [px EXCEPT ![c] = Nil]
    /\ dest' = [dest EXCEPT ![c] = <<>>]
    /\ method' = [method EXCEPT ![c] = "CONNECT"]
    /\ hdr' = [hdr EXCEPT ![c] = NoHeader]
    /\ clean' = [clean EXCEPT ![c] = FALSE]
    /\ repeat' = [repeat EXCEPT ![c] = FALSE]
    /\ UNCHANGED sent
    /\ pc' = [pc EXCEPT ![c] = "done"]
    /\ UNCHANGED <<srvCfg, poolVars, reqCount, connErrors, httpErrors, rotVars, pinVars,
                   chanVars, workerVars, rcur, hrot, gen0, resp, last, pinned, counted, errGen, waiting,
                   batchGen, calls>>

\* Rotator.ProxyFor called for the destination of a request.
SelectStep(c) ==
    \/ \E r \in Requests : Accept(c, r[1], r[2], NoHeader)
    \/ ProxyForLock(c)
    \/ ProxyForPin(c)

\* handleCONNECT / handleHTTP after the selection.
ServeStep(c) ==
    \/ TrackConn(c)
    \/ DialOk(c)
    \/ DialFail(c)
    \/ WriteFail(c)
    \/ RecordRead(c, "rr_read", "rr_add", "tunnel")
    \/ RecordRequestAdd(c, "rr_add", "rr_send", "tunnel")
    \/ RecordSend(c, "rr_send", "request-count", "tunnel")
    \/ RecordRead(c, "ce_read", "ce_add", "ce_ret")
    \/ RecordConnErrorAdd(c)
    \/ RecordSend(c, "ce_send", "conn-errors", "ce_ret")
    \/ ErrorReply(c)
    \/ Release(c, "tunnel")
    \/ Release(c, "close")

\* A direct call of Rotator.RecordRequest or Rotator.RecordConnError (as the
\* package's tests make), the max-th at most of the run.
CallRecord(c, at, max) ==
    /\ pc[c] = "idle"
    /\ calls < max
    /\ calls' = calls + 1
    /\ pc' = [pc EXCEPT ![c] = at]
    /\ UNCHANGED <<srvCfg, poolVars, counterVars, rotVars, pinVars, chanVars, workerVars,
                   dest, method, hdr, px, via, rcur, hrot, gen0, resp, clean, last, pinned, counted, errGen, repeat, sent,
                   waiting, batchGen>>

\* A direct call of Rotator.RecordRequest.
CallRecordRequest(c) == CallRecord(c, "rr_read", MaxCalls)

\* The steps of such a call.
RecordStep(c) ==
    \/ CallRecordRequest(c)
    \/ RecordRead(c, "rr_read", "rr_add", "idle")
    \/ RecordRequestAdd(c, "rr_add", "rr_send", "idle")
    \/ RecordSend(c, "rr_send", "request-count", "idle")

\* The steps of a RecordRequest call after its start.
RecordRequestSteps(c) ==
    \/ RecordRead(c, "rr_read", "rr_add", "idle")
    \/ RecordRequestAdd(c, "rr_add", "rr_send", "idle")
    \/ RecordSend(c, "rr_send", "request-count", "idle")

\* The steps of a RecordConnError call after its start.
RecordConnErrorSteps(c) ==
    \/ RecordRead(c, "ce_read", "ce_add", "idle")
    \/ RecordConnErrorAddAt(c, "ce_add", "ce_send", "idle")
    \/ RecordSend(c, "ce_send", "conn-errors", "idle")

\* ------------------------------------------------------ HTTP error reports

\* Time passes.
Tick ==
    /\ now < MaxTime
    /\ now' = now + 1
    /\ UNCHANGED <<srvCfg, poolVars, counterVars, cfg, mu, current, generation, rotatedAt,
                   recent, pinVars, chanVars, workerVars, connVars, histVars>>

\* The destinations the crawler reports (api.go handleStatus hands
\* req.Destination to RecordHTTPError as it came).
Destinations == Hosts

\* A variant of the dedup test whose window is one unit shorter.
Deduped_Short(lastSeen, t, window) == lastSeen # ZeroTime /\ t - lastSeen < window - 1

\* A variant of the dedup test whose window is one unit longer.
Deduped_Inclusive(lastSeen, t, window) == lastSeen # ZeroTime /\ t - lastSeen <= window

\* RecordHTTPError line 185: the domain was seen and time.Since(last) is
\* below the window.
Deduped(lastSeen, t, window) == lastSeen # ZeroTime /\ t - lastSeen < window

\* A variant of the grace test without the IsZero test.
InGrace_AnyTime(rot, t, window) == t - rot < window

\* RecordHTTPError line 203: a rotation was stamped and time.Since(rotatedAt)
\* is below the window.
InGrace(rot, t, window) == rot # ZeroTime /\ t - rot < window

\* RecordHTTPError lines 176-182 called with destination d: with the
\* threshold off the call returns at once.
ReportCall(c, d) ==
    /\ pc[c] = "idle"
    /\ calls < MaxCalls
    /\ calls' = calls + 1
    /\ sent' = [sent EXCEPT ![c] = FALSE]
    /\ IF cfg.RotateHTTPErrors <= 0
       THEN UNCHANGED <<pc, dest, clean>>
       ELSE /\ dest' = [dest EXCEPT ![c] = d]
            /\ clean' = [clean EXCEPT ![c] = ~mu]
            /\ pc' = [pc EXCEPT ![c] = "he_dedup"]
    /\ UNCHANGED <<srvCfg, poolVars, counterVars, rotVars, pinVars, chanVars, workerVars,
                   method, hdr, px, via, rcur, hrot, gen0, resp, last, pinned, counted,
                   errGen, repeat, waiting, batchGen>>

\* A variant of the dedup step with a sliding window: a dropped report
\* records its time too.
ReportDedup_Sliding(c) ==
    /\ pc[c] = "he_dedup"
    /\ recent' = [recent EXCEPT ![DomainOf(c)] = now]
    /\ IF Deduped(recent[DomainOf(c)], now, cfg.HTTPErrorDedupWindow)
       THEN /\ pc' = [pc EXCEPT ![c] = "idle"]
            /\ dest' = [dest EXCEPT ![c] = <<>>]
            /\ clean' = [clean EXCEPT ![c] = FALSE]
       ELSE /\ pc' = [pc EXCEPT ![c] = "he_read"]
            /\ UNCHANGED <<dest, clean>>
    /\ UNCHANGED <<srvCfg, poolVars, counterVars, cfg, mu, current, generation, rotatedAt,
                   now, pinVars, chanVars, workerVars, method, hdr, px, via, rcur, hrot, gen0,
                   resp, last, pinned, counted, errGen, repeat, sent, waiting, batchGen, calls>>

\* A variant of the dedup step that tests the domain without recording the
\* time of a report it lets through.
ReportDedup_NoStamp(c) ==
    /\ pc[c] = "he_dedup"
    /\ IF Deduped(recent[DomainOf(c)], now, cfg.HTTPErrorDedupWindow)
       THEN /\ pc' = [pc EXCEPT ![c] = "idle"]
            /\ dest' = [dest EXCEPT ![c] = <<>>]
            /\ clean' = [clean EXCEPT ![c] = FALSE]
       ELSE /\ pc' = [pc EXCEPT ![c] = "he_read"]
            /\ UNCHANGED <<dest, clean>>
    /\ UNCHANGED <<srvCfg, poolVars, counterVars, cfg, mu, current, generation, rotatedAt,
                   recent, now, pinVars, chanVars, workerVars, method, hdr, px, via, rcur,
                   hrot, gen0, resp, last, pinned, counted, errGen, repeat, sent, waiting,
                   batchGen, calls>>

\* RecordHTTPError lines 184-191, under r.recentHTTPErrorsMu: a report of a
\* domain seen within the window returns; any other records the time.
ReportDedup(c) ==
    /\ pc[c] = "he_dedup"
    /\ IF Deduped(recent[DomainOf(c)], now, cfg.HTTPErrorDedupWindow)
       THEN /\ pc' = [pc EXCEPT ![c] = "idle"]
            /\ dest' = [dest EXCEPT ![c] = <<>>]
            /\ clean' = [clean EXCEPT ![c] = FALSE]
            /\ UNCHANGED recent
       ELSE /\ recent' = [recent EXCEPT ![DomainOf(c)] = now]
            /\ pc' = [pc EXCEPT ![c] = "he_read"]
            /\ UNCHANGED <<dest, clean>>
    /\ UNCHANGED <<srvCfg, poolVars, counterVars, cfg, mu, current, generation, rotatedAt,
                   now, pinVars, chanVars, workerVars, method, hdr, px, via, rcur, hrot, gen0,
                   resp, last, pinned, counted, errGen, repeat, sent, waiting, batchGen, calls>>

\* RecordHTTPError lines 198-201: read r.rotatedAt and r.current under the
\* read lock.
ReportRead(c) ==
    /\ pc[c] = "he_read"
    /\ ~mu
    /\ hrot' = [hrot EXCEPT ![c] = rotatedAt]
    /\ UNCHANGED gen0
    /\ rcur' = [rcur EXCEPT ![c] = current]
    /\ pc' = [pc EXCEPT ![c] = "he_grace"]
    /\ UNCHANGED <<srvCfg, poolVars, counterVars, rotVars, pinVars, chanVars, workerVars,
                   dest, method, hdr, px, via, resp, histVars>>

\* RecordHTTPError lines 203-212: within the grace period, or with no
\* current proxy, return; else cur.HTTPErrors.Add(1) and the threshold test.
ReportGrace(c) ==
    /\ pc[c] = "he_grace"
    /\ IF InGrace(hrot[c], now, cfg.HTTPErrorDedupWindow) \/ rcur[c] = Nil
       THEN /\ pc' = [pc EXCEPT ![c] = "idle"]
            /\ dest' = [dest EXCEPT ![c] = <<>>]
            /\ clean' = [clean EXCEPT ![c] = FALSE]
            /\ UNCHANGED <<httpErrors, counted>>
       ELSE /\ httpErrors' = [httpErrors EXCEPT ![rcur[c]] = @ + 1]
            /\ counted' = [counted EXCEPT ![DomainOf(c)] = recent[DomainOf(c)]]
            /\ IF httpErrors'[rcur[c]] >= cfg.RotateHTTPErrors
               THEN /\ pc' = [pc EXCEPT ![c] = "he_send"]
                    /\ UNCHANGED <<dest, clean>>
               ELSE /\ pc' = [pc EXCEPT ![c] = "idle"]
                    /\ dest' = [dest EXCEPT ![c] = <<>>]
                    /\ clean' = [clean EXCEPT ![c] = FALSE]
    /\ rcur' = [rcur EXCEPT ![c] = Nil]
    /\ hrot' = [hrot EXCEPT ![c] = ZeroTime]
    /\ UNCHANGED gen0
    /\ UNCHANGED <<srvCfg, poolVars, activeConns, reqCount, connErrors, rotVars, pinVars,
                   chanVars, workerVars, method, hdr, px, via, resp, last, pinned,
                   errGen, repeat, sent, waiting, batchGen, calls>>

\* RecordHTTPError line 212: the blocking send of the trigger on rotateCh.
ReportSend(c) ==
    /\ pc[c] = "he_send"
    /\ Len(rotateCh) < RotateChCap
    /\ rotateCh' = Append(rotateCh, "http-errors")
    /\ sent' = [sent EXCEPT ![c] = TRUE]
    /\ pc' = [pc EXCEPT ![c] = "idle"]
    /\ dest' = [dest EXCEPT ![c] = <<>>]
    /\ clean' = [clean EXCEPT ![c] = FALSE]
    /\ UNCHANGED <<srvCfg, poolVars, counterVars, rotVars, pinVars, stop, workerVars,
                   method, hdr, px, via, rcur, hrot, gen0, resp, last, pinned, counted,
                   errGen, repeat, waiting, batchGen, calls>>

\* The steps of a report.
ReportStep(c) ==
    \/ \E d \in Destinations : ReportCall(c, d)
    \/ ReportDedup(c)
    \/ ReportRead(c)
    \/ ReportGrace(c)
    \/ ReportSend(c)

\* ----------------------------------------------------------- specifications

\* rotator.Config as cmd/root.go hands it to rotator.New.
Config(requests, connErrs, httpErrs, window, interval) ==
    [RotateRequests |-> requests, RotateConnErrors |-> connErrs,
     RotateHTTPErrors |-> httpErrs, HTTPErrorDedupWindow |-> window,
     RotateInterval |-> interval]

\* Pool.LoadFile on a file of n valid lines, then rotator.New (its
\* pickNext("startup") on the all-alive pool) and Rotator.Start: the first
\* record is current, generation is 1, rotatedAt is the zero time.
InitWith(config, srt, liveness, lat0, n, server) ==
    /\ srvCfg = server
    /\ file = [i \in 1..n |-> <<"h1:80">>]
    /\ loadErr = "nil"
    /\ nextID = n
    /\ Scheme = [p \in Proxies |-> IF p <= n THEN "http" ELSE ""]
    /\ Host = [p \in Proxies |-> IF p <= n THEN "h1:80" ELSE ""]
    /\ proxies = [i \in 1..n |-> i]
    /\ latencySort = srt
    /\ updateLiveness = liveness
    /\ alive = [p \in Proxies |-> TRUE]
    /\ latency = [p \in Proxies |-> lat0]
    /\ activeConns = [p \in Proxies |-> 0]
    /\ reqCount = [p \in Proxies |-> 0]
    /\ connErrors = [p \in Proxies |-> 0]
    /\ httpErrors = [p \in Proxies |-> 0]
    /\ cfg = config
    /\ mu = FALSE
    /\ current = 1
    /\ generation = 1
    /\ rotatedAt = ZeroTime
    /\ recent = [d \in Domains |-> ZeroTime]
    /\ pins = [d \in Domains |-> Nil]
    /\ pinsMu = Nil
    /\ rotateCh = <<>>
    /\ stop = FALSE
    /\ now = 1
    /\ wpc = "select"
    /\ wreason = <<>>
    /\ wprev = Nil
    /\ ipc = IF config.RotateInterval > 0 THEN "select" ELSE "off"
    /\ pc = [c \in Conns |-> "idle"]
    /\ dest = [c \in Conns |-> <<>>]
    /\ method = [c \in Conns |-> "CONNECT"]
    /\ hdr = [c \in Conns |-> NoHeader]
    /\ px = [c \in Conns |-> Nil]
    /\ via = [c \in Conns |-> Nil]
    /\ rcur = [c \in Conns |-> Nil]
    /\ hrot = [c \in Conns |-> ZeroTime]
    /\ gen0 = [c \in Conns |-> 0]
    /\ resp = [c \in Conns |-> "none"]
    /\ clean = [c \in Conns |-> FALSE]
    /\ last = [d \in Domains |-> Nil]
    /\ pinned = [d \in Domains |-> Nil]
    /\ counted = [d \in Domains |-> ZeroTime]
    /\ errGen = 0
    /\ repeat = [c \in Conns |-> FALSE]
    /\ sent = [c \in Conns |-> FALSE]
    /\ waiting = 0
    /\ batchGen = 0
    /\ calls = 0

\* The same with no credentials configured on the forwarder.
InitState(config, srt, liveness, lat0, n) ==
    InitWith(config, srt, liveness, lat0, n, NoCredentials)

\* The pinning scenario: NCallers goroutines call ProxyFor over and over
\* while /api/rotate is called and the monitor probes; no thresholds set.
Init == InitState(Config(0, 0, 0, 2, 0), FALSE, TRUE, 1, SmallPool)

Next ==
    \/ \E c \in Callers : SelectStep(c) \/ Return(c)
    \/ WorkerStep
    \/ ForceRotate
    \/ \E p \in Loaded, ok \in BOOLEAN : MonitorCheck(p, ok, 1)

Spec == Init /\ [][Next]_vars

\* The forwarding scenario: NConns connections are served with a
\* request-count threshold and a conn-error threshold of 1 (every request
\* and every failed dial raises a trigger) while the monitor probes.
InitDrain == InitState(Config(1, 1, 0, 2, 0), FALSE, TRUE, 1, SmallPool)

NextDrain ==
    \/ \E c \in Conns : SelectStep(c) \/ ServeStep(c)
    \/ WorkerStep
    \/ \E p \in Loaded, ok \in BOOLEAN : MonitorCheck(p, ok, 1)

SpecDrain == InitDrain /\ [][NextDrain]_vars

\* The threshold scenario: direct RecordRequest calls against a
\* request-count threshold of 3 (TestRotateOnRequestCount).
InitThreshold == InitState(Config(3, 0, 0, 2, 0), FALSE, TRUE, 0, SmallPool)

NextThreshold ==
    \/ \E c \in Conns : RecordStep(c)
    \/ WorkerStep

SpecThreshold == InitThreshold /\ [][NextThreshold]_vars

\* The rotation scenario: a pool of NProxies records, not yet probed,
\* latency-sort off; /api/rotate is called and the monitor probes.
InitRotate == InitState(Config(0, 0, 0, 2, 0), FALSE, TRUE, 0, NProxies)

NextRotate ==
    \/ WorkerStep
    \/ ForceRotate
    \/ \E p \in Loaded, ok \in BOOLEAN : MonitorCheck(p, ok, 1)

SpecRotate == InitRotate /\ [][NextRotate]_vars

\* The threshold-rule scenario: direct RecordRequest and RecordConnError
\* calls (TestRotateOnRequestCount, TestRotateOnConnErrors), one of the two
\* thresholds being 2 and the other off.
InitRule ==
    \E t \in {<<2, 0>>, <<0, 2>>} :
        InitState(Config(t[1], t[2], 0, 2, 0), FALSE, TRUE, 0, SmallPool)

NextRule ==
    \/ \E c \in Conns :
          \/ CallRecord(c, "rr_read", MaxCalls)
          \/ CallRecord(c, "ce_read", MaxCalls)
          \/ RecordRequestSteps(c)
          \/ RecordConnErrorSteps(c)
    \/ WorkerStep

SpecRule == InitRule /\ [][NextRule]_vars

\* The trigger scenario: one goroutine calls RecordConnError over and over
\* on a pool of one record with a threshold of 2, while the rotation loop
\* runs at any pace or has been stopped.
InitTrigger == InitState(Config(0, 2, 0, 2, 0), FALSE, TRUE, 0, 1)

NextTrigger ==
    \/ CallRecord(1, "ce_read", MaxBurst)
    \/ RecordConnErrorSteps(1)
    \/ WorkerStep
    \/ LoopExit
    \/ Stop

SpecTrigger == InitTrigger /\ [][NextTrigger]_vars

\* The liveness scenario: the pinning scenario with every upstream alive
\* throughout (no monitor). The Go scheduler lets every goroutine that can
\* take a step take one eventually: the rotation loop and each ProxyFor
\* caller are weakly fair.
NextLive ==
    \/ \E c \in Callers : SelectStep(c) \/ Return(c)
    \/ WorkerStep
    \/ ForceRotate

SpecLive ==
    /\ Init
    /\ [][NextLive]_vars
    /\ WF_vars(WorkerStep)
    /\ \A c \in Callers : WF_vars(ProxyForLock(c) \/ ProxyForPin(c) \/ Return(c))

\* The report scenario: the crawler reports HTTP errors through /api/status
\* one after the other against a threshold of 2 and a dedup window of 2
\* while time passes and the rotation loop runs; the Go scheduler lets the
\* loop and the reporting goroutine take their steps eventually.
InitReport == InitState(Config(0, 0, 2, 2, 0), FALSE, TRUE, 0, SmallPool)

NextReport ==
    \/ ReportStep(1)
    \/ WorkerStep
    \/ Tick

SpecReport ==
    /\ InitReport
    /\ [][NextReport]_vars
    /\ WF_vars(WorkerStep)
    /\ WF_vars(ReportDedup(1) \/ ReportRead(1) \/ ReportGrace(1) \/ ReportSend(1))

\* The same-upstream scenario: a goroutine calls ProxyFor, RecordRequest,
\* RecordConnError and RecordHTTPError on a pool of one record, each
\* threshold being 2.
InitSame == InitState(Config(2, 2, 2, 2, 0), FALSE, TRUE, 0, 1)

NextSame ==
    \/ SelectStep(1) \/ Return(1)
    \/ CallRecord(1, "rr_read", MaxCalls)
    \/ CallRecord(1, "ce_read", MaxCalls)
    \/ RecordRequestSteps(1)
    \/ RecordConnErrorSteps(1)
    \/ ReportStep(1)
    \/ WorkerStep

SpecSame == InitSame /\ [][NextSame]_vars

\* ------------------------------------------------------- POST /api/status

\* The HTTP methods of the requests the API receives.
APIMethods == { "POST", "GET" }

\* The status codes crawlers report (0: the field was left out).
StatusCodes == { 0, 199, 200, 399, 400 }

\* The destinations of the reports: those of the crawl, or none ("").
ReportedDestinations == Destinations \cup { <<>> }

\* A variant of the healthy test that leaves 200 out.
Healthy_Above(st) == st > 200 /\ st < 400

\* handleStatus line 130: 2xx and 3xx are healthy.
Healthy(st) == st >= 200 /\ st < 400

\* handleStatus lines 113-133 on a request with method m, a body that
\* decodes (ok) or not, status st and destination d: the rejections, the
\* healthy answer, or on to the report.
HandleStatus(c, m, ok, st, d) ==
    /\ pc[c] = "idle"
    /\ gen0[c] = 0
    /\ calls < MaxCalls
    /\ IF m # "POST"
       THEN resp' = [resp EXCEPT ![c] = "405"] /\ UNCHANGED <<pc, dest>>
       ELSE IF ~ok \/ d = <<>>
       THEN resp' = [resp EXCEPT ![c] = "400"] /\ UNCHANGED <<pc, dest>>
       ELSE IF Healthy(st)
       THEN resp' = [resp EXCEPT ![c] = "rotated=false"] /\ UNCHANGED <<pc, dest>>
       ELSE /\ resp' = [resp EXCEPT ![c] = "none"]
            /\ dest' = [dest EXCEPT ![c] = d]
            /\ pc' = [pc EXCEPT ![c] = "st_gen"]
    /\ UNCHANGED <<srvCfg, poolVars, counterVars, rotVars, pinVars, chanVars, workerVars,
                   method, hdr, px, via, rcur, hrot, gen0, histVars>>

\* handleStatus lines 135-136: genBefore := Generation() under the read
\* lock, then the call of RecordHTTPError, which returns at once with the
\* threshold off (rotator.go lines 176-182).
StatusGen(c) ==
    /\ pc[c] = "st_gen"
    /\ ~mu
    /\ gen0' = [gen0 EXCEPT ![c] = generation]
    /\ calls' = calls + 1
    /\ sent' = [sent EXCEPT ![c] = FALSE]
    /\ IF cfg.RotateHTTPErrors <= 0
       THEN /\ pc' = [pc EXCEPT ![c] = "idle"]
            /\ dest' = [dest EXCEPT ![c] = <<>>]
            /\ UNCHANGED clean
       ELSE /\ pc' = [pc EXCEPT ![c] = "he_dedup"]
            /\ clean' = [clean EXCEPT ![c] = TRUE]
            /\ UNCHANGED dest
    /\ UNCHANGED <<srvCfg, poolVars, counterVars, rotVars, pinVars, chanVars, workerVars,
                   method, hdr, px, via, rcur, hrot, resp, last, pinned, counted,
                   errGen, repeat, waiting, batchGen>>

\* handleStatus lines 137-140: RecordHTTPError has returned; Generation()
\* is read again and compared with genBefore.
StatusReply(c) ==
    /\ pc[c] = "idle"
    /\ gen0[c] # 0
    /\ ~mu
    /\ resp' = [resp EXCEPT ![c] = IF generation # gen0[c] THEN "rotated=true"
                                   ELSE "rotated=false"]
    /\ gen0' = [gen0 EXCEPT ![c] = 0]
    /\ UNCHANGED <<srvCfg, poolVars, counterVars, rotVars, pinVars, chanVars, workerVars,
                   pc, dest, method, hdr, px, via, rcur, hrot, histVars>>

\* The steps of a POST /api/status handler.
StatusStep(c) ==
    \/ \E m \in APIMethods, ok \in BOOLEAN, st \in StatusCodes,
          d \in ReportedDestinations : HandleStatus(c, m, ok, st, d)
    \/ StatusGen(c)
    \/ ReportDedup(c)
    \/ ReportRead(c)
    \/ ReportGrace(c)
    \/ ReportSend(c)
    \/ StatusReply(c)

\* The status scenario: the crawler posts reports to /api/status one after
\* the other, within one dedup window, against a threshold of 1 or 2 while
\* the rotation loop runs.
InitStatus ==
    \E threshold \in 1..2 :
        InitState(Config(0, 0, threshold, 2, 0), FALSE, TRUE, 0, SmallPool)

NextStatus ==
    \/ StatusStep(1)
    \/ WorkerStep

SpecStatus == InitStatus /\ [][NextStatus]_vars

\* --------------------------------------------------------- the interval

\* intervalLoop line 270: the select takes a tick of the ticker.
IntervalTick ==
    /\ ipc = "select"
    /\ calls < MaxBurst
    /\ calls' = calls + 1
    /\ ipc' = "send"
    /\ UNCHANGED <<srvCfg, poolVars, counterVars, rotVars, pinVars, chanVars, wpc, wreason,
                   wprev, connVars, clean, last, pinned, counted, errGen, repeat, sent,
                   waiting, batchGen>>

\* intervalLoop line 271: r.rotateCh <- "interval", a send that waits for
\* room on the channel.
IntervalSend ==
    /\ ipc = "send"
    /\ Len(rotateCh) < RotateChCap
    /\ rotateCh' = Append(rotateCh, "interval")
    /\ ipc' = "select"
    /\ UNCHANGED <<srvCfg, poolVars, counterVars, rotVars, pinVars, stop, wpc, wreason,
                   wprev, connVars, histVars>>

\* intervalLoop lines 272-273: the select takes the closed stop channel.
IntervalExit ==
    /\ ipc = "select"
    /\ stop
    /\ ipc' = "exit"
    /\ UNCHANGED <<srvCfg, poolVars, counterVars, rotVars, pinVars, chanVars, wpc, wreason,
                   wprev, connVars, histVars>>

\* Rotator.Stop line 230: r.wg.Wait() returns once every launched loop has
\* run its deferred wg.Done().
StopReturns == stop /\ wpc = "exit" /\ ipc \in {"off", "exit"}

\* The shutdown scenario: a pool of one record, a rotation interval set,
\* both loops launched; the ticker fires and Stop is called. A select with
\* several ready cases picks one at random, so a case that is ready again
\* and again is taken eventually; a goroutine that can run does.
InitStop == InitState(Config(0, 0, 0, 2, 1), FALSE, TRUE, 0, 1)

NextStop ==
    \/ IntervalTick
    \/ IntervalSend
    \/ IntervalExit
    \/ WorkerStep
    \/ LoopExit
    \/ Stop

SpecStop ==
    /\ InitStop
    /\ [][NextStop]_vars
    /\ WF_vars(WorkerStep)
    /\ SF_vars(LoopExit)
    /\ WF_vars(IntervalSend)
    /\ SF_vars(IntervalExit)

\* The authentication scenario: the forwarder runs with or without
\* credentials; clients send requests with every kind of
\* Proxy-Authorization header; a threshold of 1 makes every request and
\* every failed dial raise a trigger.
InitAuth ==
    \E server \in {NoCredentials, SomeCredentials} :
        InitWith(Config(1, 1, 0, 2, 0), FALSE, TRUE, 1, SmallPool, server)

NextAuth ==
    \/ \E c \in Conns :
          \/ \E r \in Requests, h \in Headers : Accept(c, r[1], r[2], h)
          \/ ProxyForLock(c)
          \/ ProxyForPin(c)
          \/ ServeStep(c)
    \/ WorkerStep

SpecAuth == InitAuth /\ [][NextAuth]_vars

\* ------------------------------------------------------- construction

\* The largest latency a probe measures.
MaxLatency == 2

\* A variant of rotator.New that returns a rotator also when pickNext found
\* no alive record.
New_Lenient ==
    /\ wpc = "new"
    /\ \E snap \in PoolAlive(proxies, alive, latency, latencySort) :
         IF Len(snap) = 0
         THEN /\ wpc' = "built"
              /\ UNCHANGED <<current, generation, rotatedAt, counterVars, pins>>
         ELSE /\ current' = PickTarget(snap)
              /\ generation' = NextGeneration(generation)
              /\ rotatedAt' = StampRotatedAt(current)
              /\ reqCount' = ResetCounter(reqCount, PickTarget(snap))
              /\ connErrors' = ResetCounter(connErrors, PickTarget(snap))
              /\ httpErrors' = ResetCounter(httpErrors, PickTarget(snap))
              /\ pins' = PurgePins(pins, current, PickTarget(snap))
              /\ wpc' = "built"
              /\ UNCHANGED activeConns
    /\ UNCHANGED <<srvCfg, poolVars, cfg, mu, recent, now, pinsMu, chanVars, wreason, wprev, ipc,
                   connVars, histVars>>

\* rotator.New: the synchronous pickNext("startup"). With no alive record
\* New returns the error and no rotator; else current is the first entry of
\* the alive snapshot, the generation is counted, and, prev being nil,
\* rotatedAt is not stamped and no pin is purged. No other goroutine holds
\* the rotator before New returns, so the lock and unlock are one step.
New ==
    /\ wpc = "new"
    /\ \E snap \in PoolAlive(proxies, alive, latency, latencySort) :
         IF Len(snap) = 0
         THEN /\ wpc' = "failed"
              /\ UNCHANGED <<current, generation, rotatedAt, counterVars, pins>>
         ELSE /\ current' = PickTarget(snap)
              /\ generation' = NextGeneration(generation)
              /\ rotatedAt' = StampRotatedAt(current)
              /\ reqCount' = ResetCounter(reqCount, PickTarget(snap))
              /\ connErrors' = ResetCounter(connErrors, PickTarget(snap))
              /\ httpErrors' = ResetCounter(httpErrors, PickTarget(snap))
              /\ pins' = PurgePins(pins, current, PickTarget(snap))
              /\ wpc' = "built"
              /\ UNCHANGED activeConns
    /\ UNCHANGED <<srvCfg, poolVars, cfg, mu, recent, now, pinsMu, chanVars, wreason, wprev, ipc,
                   connVars, histVars>>

\* Rotator.Start: launch rotationLoop and, with a positive RotateInterval,
\* intervalLoop.
Start ==
    /\ wpc = "built"
    /\ wpc' = "select"
    /\ ipc' = IF cfg.RotateInterval > 0 THEN "select" ELSE "off"
    /\ UNCHANGED <<srvCfg, poolVars, counterVars, rotVars, pinVars, chanVars, wreason, wprev,
                   connVars, histVars>>

\* The rotator, the forwarder and the API before runStart has built them.
Unstarted ==
    /\ srvCfg = NoCredentials
    /\ activeConns = [p \in Proxies |-> 0]
    /\ reqCount = [p \in Proxies |-> 0]
    /\ connErrors = [p \in Proxies |-> 0]
    /\ httpErrors = [p \in Proxies |-> 0]
    /\ cfg = Config(0, 0, 0, 2, 0)
    /\ mu = FALSE
    /\ current = Nil
    /\ generation = 0
    /\ rotatedAt = ZeroTime
    /\ recent = [d \in Domains |-> ZeroTime]
    /\ pins = [d \in Domains |-> Nil]
    /\ pinsMu = Nil
    /\ rotateCh = <<>>
    /\ stop = FALSE
    /\ now = 1
    /\ wpc = "new"
    /\ wreason = <<>>
    /\ wprev = Nil
    /\ ipc = "off"
    /\ pc = [c \in Conns |-> "idle"]
    /\ dest = [c \in Conns |-> <<>>]
    /\ method = [c \in Conns |-> "CONNECT"]
    /\ hdr = [c \in Conns |-> NoHeader]
    /\ px = [c \in Conns |-> Nil]
    /\ via = [c \in Conns |-> Nil]
    /\ rcur = [c \in Conns |-> Nil]
    /\ hrot = [c \in Conns |-> ZeroTime]
    /\ gen0 = [c \in Conns |-> 0]
    /\ resp = [c \in Conns |-> "none"]
    /\ clean = [c \in Conns |-> FALSE]
    /\ last = [d \in Domains |-> Nil]
    /\ pinned = [d \in Domains |-> Nil]
    /\ counted = [d \in Domains |-> ZeroTime]
    /\ errGen = 0
    /\ repeat = [c \in Conns |-> FALSE]
    /\ sent = [c \in Conns |-> FALSE]
    /\ waiting = 0
    /\ batchGen = 0
    /\ calls = 0

\* The startup scenario of runStart: the pool is loaded, the first health
\* check runs in the background, the rotator is built and started, then
\* /api/rotate is called while the monitor goes on probing.
InitNew ==
    /\ file = [i \in 1..NProxies |-> <<"h1:80">>]
    /\ loadErr = "nil"
    /\ nextID = NProxies
    /\ Scheme = [p \in Proxies |-> "http"]
    /\ Host = [p \in Proxies |-> "h1:80"]
    /\ proxies = [i \in 1..NProxies |-> i]
    /\ latencySort \in BOOLEAN
    /\ updateLiveness = TRUE
    /\ alive = [p \in Proxies |-> TRUE]
    /\ latency = [p \in Proxies |-> 0]
    /\ Unstarted

\* /api/rotate is served only once the rotator exists and has been started.
RotateRequest == wpc \notin {"new", "failed", "built"} /\ ForceRotate

NextNew ==
    \/ New
    \/ Start
    \/ RotateRequest
    \/ WorkerStep
    \/ \E p \in Loaded, ok \in BOOLEAN, lat \in 1..MaxLatency : MonitorCheck(p, ok, lat)

SpecNew == InitNew /\ [][NextNew]_vars

\* runStart starts the proxy server once rotator.New has succeeded and
\* Start has been called.
Serving == wpc \notin {"new", "failed", "built"}

\* The serving scenario: the startup scenario with a client of the proxy
\* server whose requests call ProxyFor.
InitServe ==
    /\ file = [i \in 1..SmallPool |-> <<"h1:80">>]
    /\ loadErr = "nil"
    /\ nextID = SmallPool
    /\ Scheme = [p \in Proxies |-> "http"]
    /\ Host = [p \in Proxies |-> "h1:80"]
    /\ proxies = [i \in 1..SmallPool |-> i]
    /\ latencySort = FALSE
    /\ updateLiveness = TRUE
    /\ alive = [p \in Proxies |-> TRUE]
    /\ latency = [p \in Proxies |-> 0]
    /\ Unstarted

NextServe ==
    \/ New
    \/ Start
    \/ RotateRequest
    \/ WorkerStep
    \/ \E p \in Loaded, ok \in BOOLEAN : MonitorCheck(p, ok, 1)
    \/ Serving /\ (SelectStep(1) \/ Return(1))

SpecServe == InitServe /\ [][NextServe]_vars

\* ------------------------------------------------------- the proxy list

\* The lines of a proxy list file, as sequences of tokens: blank and
\* whitespace-only lines, comments, URIs with the three schemes (in either
\* case, with user info, with surrounding whitespace), an unsupported scheme,
\* a bare host:port and a URI without a host.
Lines ==
    { <<>>, <<" ">>, <<"#", "x">>, <<" ", "#", "x">>,
      <<"http", "://", "h1:80">>,
      <<"HTTPS", "://", "u:p@", "h2:81">>,
      <<" ", "socks5", "://", "h3:82", " ">>,
      <<"trojan", "://", "h4:83">>,
      <<"h5:84">>,
      <<"http", "://">> }

\* The longest file: one record per line fills the pool.
MaxLines == NProxies

\* The proxy list files.
Files == UNION { [1..n -> Lines] : n \in 0..MaxLines }

RECURSIVE TrimLeft(_)
\* strings.TrimSpace, the leading part.
TrimLeft(s) ==
    IF Len(s) > 0 /\ Head(s) = " " THEN TrimLeft(Tail(s)) ELSE s

RECURSIVE TrimRight(_)
\* strings.TrimSpace, the trailing part.
TrimRight(s) ==
    IF Len(s) > 0 /\ s[Len(s)] = " " THEN TrimRight(SubSeq(s, 1, Len(s) - 1)) ELSE s

\* strings.TrimSpace
TrimSpace(s) == TrimRight(TrimLeft(s))

\* strings.ToLower on a scheme word.
LowerScheme(w) ==
    CASE w = "HTTP" -> "http"
      [] w = "HTTPS" -> "https"
      [] OTHER -> w

\* The user-info parts of the URIs ("user:pass@").
UserInfos == { "u:p@" }

\* url.Parse: the scheme is what stands before "://" and the host what
\* follows it, without the user info.
urlParse(raw) ==
    IF Len(raw) >= 2 /\ raw[2] = "://"
    THEN LET rest == SubSeq(raw, 3, Len(raw))
             authority == IF Len(rest) > 0 /\ rest[1] \in UserInfos THEN Tail(rest)
                          ELSE rest
         IN  [Scheme |-> raw[1],
              Host |-> IF Len(authority) > 0 THEN authority[1] ELSE ""]
    ELSE [Scheme |-> "", Host |-> ""]

\* A variant of parseProxy without the default scheme: the line is parsed
\* as it stands.
parseProxy_AsIs(raw) ==
    LET u == urlParse(raw)
        sch == LowerScheme(u.Scheme)
    IN  IF sch \notin {"http", "https", "socks5"} \/ u.Host = ""
        THEN [err |-> TRUE, Scheme |-> "", Host |-> ""]
        ELSE [err |-> FALSE, Scheme |-> sch, Host |-> u.Host]

\* parseProxy(raw): a line without "://" gets "http://" in front; the
\* scheme is lowercased and must be one of the three; the host must not
\* be empty.
parseProxy(raw) ==
    LET withScheme == IF \A i \in 1..Len(raw) : raw[i] # "://"
                      THEN <<"http", "://">> \o raw
                      ELSE raw
        u == urlParse(withScheme)
        sch == LowerScheme(u.Scheme)
    IN  IF sch \notin {"http", "https", "socks5"}
        THEN [err |-> TRUE, Scheme |-> "", Host |-> ""]
        ELSE IF u.Host = ""
        THEN [err |-> TRUE, Scheme |-> "", Host |-> ""]
        ELSE [err |-> FALSE, Scheme |-> sch, Host |-> u.Host]

RECURSIVE ScanLines(_, _)
\* The scanner loop of LoadFile over the lines, the last id given being id:
\* the records it appends, in order.
ScanLines(lines, id) ==
    IF Len(lines) = 0 THEN <<>>
    ELSE LET line == TrimSpace(Head(lines))
         IN  IF Len(line) = 0 \/ Head(line) = "#"
             THEN ScanLines(Tail(lines), id)
             ELSE LET proxy == parseProxy(line)
                  IN  IF proxy.err
                      THEN ScanLines(Tail(lines), id)
                      ELSE <<[ID |-> id + 1, Scheme |-> proxy.Scheme,
                              Host |-> proxy.Host]>>
                           \o ScanLines(Tail(lines), id + 1)

\* Pool.LoadFile(path): the records of the valid lines are created alive
\* with the next ids; without any the call fails before it touches
\* Pool.proxies.
LoadFile ==
    /\ loadErr = "pending"
    /\ LET created == ScanLines(file, nextID)
           ids == { created[i].ID : i \in DOMAIN created }
           at(p) == CHOOSE i \in DOMAIN created : created[i].ID = p
       IN  /\ nextID' = nextID + Len(created)
           /\ Scheme' = [p \in Proxies |-> IF p \in ids THEN created[at(p)].Scheme
                                           ELSE Scheme[p]]
           /\ Host' = [p \in Proxies |-> IF p \in ids THEN created[at(p)].Host
                                         ELSE Host[p]]
           /\ alive' = [p \in Proxies |-> IF p \in ids THEN TRUE ELSE alive[p]]
           /\ latency' = [p \in Proxies |-> IF p \in ids THEN 0 ELSE latency[p]]
           /\ IF Len(created) = 0
              THEN loadErr' = "error" /\ UNCHANGED proxies
              ELSE /\ loadErr' = "nil"
                   /\ proxies' = [i \in DOMAIN created |-> created[i].ID]
    /\ UNCHANGED <<srvCfg, file, latencySort, updateLiveness, counterVars, rotVars,
                   pinVars, chanVars, workerVars, connVars, histVars>>

\* The loading scenario of runStart: pool.New has built an empty pool and
\* LoadFile reads the file the --file flag names.
InitLoad ==
    /\ file \in Files
    /\ loadErr = "pending"
    /\ nextID = 0
    /\ Scheme = [p \in Proxies |-> ""]
    /\ Host = [p \in Proxies |-> ""]
    /\ proxies = <<>>
    /\ latencySort \in BOOLEAN
    /\ updateLiveness = TRUE
    /\ alive = [p \in Proxies |-> FALSE]
    /\ latency = [p \in Proxies |-> 0]
    /\ Unstarted

NextLoad == LoadFile

SpecLoad == InitLoad /\ [][NextLoad]_vars

\* The key scenario: NCallers goroutines call ProxyFor and RecordHTTPError
\* for destinations that differ in port and letter case, within one dedup
\* window and against an HTTP-error threshold of 1, while the rotation loop
\* runs.
InitKey == InitState(Config(0, 0, 1, 2, 0), FALSE, TRUE, 0, SmallPool)

NextKey ==
    \/ \E c \in Callers : SelectStep(c) \/ Return(c) \/ ReportStep(c)
    \/ WorkerStep

SpecKey == InitKey /\ [][NextKey]_vars

\* ----------------------------------------------------------------- the pool

\* The pool scenario: the file is loaded (every record alive, no latency
\* measured), with or without --latency-sort and with the monitor updating
\* the liveness or not; the monitor probes the records while /api/rotate
\* makes the rotator take snapshots.
InitPool ==
    \E srt \in BOOLEAN, liveness \in BOOLEAN :
        InitState(Config(0, 0, 0, 2, 0), srt, liveness, 0, NProxies)

NextPool ==
    \/ \E p \in Loaded, ok \in BOOLEAN, lat \in 1..MaxLatency : MonitorCheck(p, ok, lat)
    \/ ForceRotate
    \/ WorkerStep

SpecPool == InitPool /\ [][NextPool]_vars

\* ------------------------------------------------------------- properties

\* A step in which the ProxyFor call of connection c returns.
ProxyForReturns(c) == pc[c] # "selected" /\ pc'[c] = "selected"

\* The positions of a connection between ActiveConns.Add(1) and the deferred
\* Add(-1).
InFlight ==
    {"dial", "rr_read", "rr_add", "rr_send", "tunnel", "ce_read", "ce_add",
     "ce_send", "ce_ret", "close"}

\* C1 (drain): a connection reaches its destination through the upstream it
\* captured at selection and keeps that upstream until it ends, whatever
\* rotations happen meanwhile; a selection that starts after a rotation is
\* complete, with none begun since, returns the rotator's present current
\* upstream.
C1_Drain ==
    /\ [](\A c \in Conns : via[c] # Nil => via[c] = px[c])
    /\ [][\A c \in Conns :
            /\ (pc[c] \in InFlight \cup {"selected"}
                    /\ pc'[c] \in InFlight \cup {"selected"})
                 => /\ px'[c] = px[c]
                    /\ via[c] # Nil => via'[c] = via[c]
            /\ (ProxyForReturns(c) /\ clean'[c]) => px'[c] = current]_vars

\* A connection is being tunnelled through an upstream that has been
\* rotated out while another one, selected since, has the new current.
C1_Witness ==
    \E c, e \in Conns :
        /\ pc[c] = "tunnel" /\ via[c] = px[c] /\ via[c] # current
        /\ pc[e] = "selected" /\ clean[e] /\ px[e] = current
        /\ generation > 1

\* C2 (active_conns): for every upstream, ActiveConns is the number of
\* in-flight connections that selected it, and it is never negative.
C2_ActiveConns ==
    \A u \in Proxies :
        /\ activeConns[u] >= 0
        /\ activeConns[u] =
             Cardinality({c \in Conns : pc[c] \in InFlight /\ px[c] = u})

\* Two connections are in flight on an upstream that is no longer current.
C2_Witness ==
    \E u \in Proxies :
        /\ activeConns[u] = NConns
        /\ u # current
        /\ \A c \in Conns : pc[c] \in InFlight /\ px[c] = u

\* C3 (pin invalidation): the rotation from prev to a different proxy leaves
\* no domain pinned to prev, and the first ProxyFor for a domain whose pin a
\* rotation removed, made with no rotation in progress, returns the current
\* proxy and pins the domain to it.
C3_PinInvalidation ==
    [][/\ (wpc = "unlock" /\ wpc' # "unlock" /\ wprev # Nil /\ wprev # current)
            => \A d \in Domains : pins'[d] # wprev
       /\ \A c \in Conns :
            (/\ ProxyForReturns(c)
             /\ clean'[c]
             /\ pins[DomainOf(c)] = Nil
             /\ pinned[DomainOf(c)] # Nil)
            => /\ px'[c] = current
               /\ pins'[DomainOf(c)] = current]_vars

\* A rotation has removed the pin of a domain, and a ProxyFor for that domain
\* has looked the pin up and is about to return.
C3_Witness ==
    \E c \in Conns :
        /\ pc[c] = "current" /\ clean[c] /\ ~mu
        /\ pins[DomainOf(c)] = Nil
        /\ pinned[DomainOf(c)] \notin {Nil, current}

\* C4 (pin stability): a ProxyFor for a domain returns what the previous
\* ProxyFor for that domain returned when no rotation began between them.
C4_PinStability ==
    [][\A c \in Conns :
         (ProxyForReturns(c) /\ clean'[c] /\ last[DomainOf(c)] # Nil)
            => px'[c] = last[DomainOf(c)]]_vars

\* A second call for a domain has returned, with no rotation since the
\* first, after the monitor marked the proxy dead.
C4_Witness ==
    \E c \in Conns :
        /\ pc[c] = "selected" /\ clean[c] /\ repeat[c]
        /\ px[c] = last[DomainOf(c)]
        /\ ~alive[px[c]]

\* C5 (select_for): ProxyFor returns the pin of the domain exactly when the
\* pin exists and its proxy is alive, and leaves the pins as they are;
\* otherwise it returns the current proxy and, when that is not nil, pins
\* the domain to it, touching no other pin; after a call that returned a
\* proxy the domain is pinned to that proxy.
C5_SelectFor ==
    [][\A c \in Conns :
         LET d == DomainOf(c)
         IN  /\ (pc[c] = "select" /\ pc'[c] # "select")
                  => IF pins[d] # Nil /\ alive[pins[d]]
                     THEN /\ pc'[c] = "selected"
                          /\ px'[c] = pins[d]
                          /\ pins' = pins
                     ELSE /\ pc'[c] = "current"
                          /\ pins' = pins
             /\ (pc[c] = "current" /\ pc'[c] # "current")
                  => /\ pc'[c] = "selected"
                     /\ px'[c] = current
                     /\ current # Nil => pins'[d] = current
                     /\ current = Nil => pins'[d] = pins[d]
                     /\ \A e \in Domains \ {d} : pins'[e] = pins[e]
             /\ (ProxyForReturns(c) /\ px'[c] # Nil) => pins'[d] = px'[c]]_vars

\* After a rotation a call has returned the current proxy and pinned a
\* domain to it while another domain is not pinned.
C5_Witness ==
    \E c \in Conns :
        /\ pc[c] = "selected" /\ generation > 1
        /\ px[c] = current /\ pins[DomainOf(c)] = current
        /\ \E e \in Domains : pins[e] = Nil

C7_DeadPinCleared ==
    [][\A c \in Conns :
         ProxyForReturns(c)
         => /\ (pins[DomainOf(c)] # Nil /\ ~alive[pins[DomainOf(c)]])
                 => px'[c] # pins[DomainOf(c)]
            /\ px'[c] # Nil => alive[px'[c]]]_vars

\* C8 (round-robin): a rotation picks, in the file order of the alive
\* proxies, the one after the current proxy, wrapping after the last, and
\* the first alive one when the current proxy is not alive; with the pool
\* [1, 2, 3] all alive the order is 1 -> 2 -> 3 -> 1.
C8_RoundRobin ==
    [][generation' # generation =>
         LET ids    == {p \in Loaded : alive[p]}
             after  == {p \in ids : p > current}
             First(S) == CHOOSE p \in S : \A q \in S : p <= q
         IN  /\ ids # {}
             /\ generation' = generation + 1
             /\ current' = IF alive[current] /\ after # {}
                           THEN First(after)
                           ELSE First(ids)
             /\ ids = Proxies => current' = (current % NProxies) + 1]_vars

\* Three rotations over the never-probed pool have come back to the first
\* proxy.
C8_Witness ==
    /\ generation = 4 /\ current = 1 /\ ~mu
    /\ \A p \in Proxies : alive[p] /\ latency[p] = 0

\* C9 as stated (threshold once): k * R calls of RecordRequest never cause
\* more than k rotations.
C9_ThresholdOnce == (generation - 1) * cfg.RotateRequests <= calls

\* C10 (coalescing): every event waiting when the loop dequeues one is
\* drained before pickNext runs, pickNext runs once per batch, and a batch
\* raises the generation by at most one.
C10_Coalescing ==
    /\ [](/\ wpc \in {"pick", "unlock"} => Len(wreason) >= waiting
          /\ wpc \in {"drain", "pick"} => generation = batchGen
          /\ wpc = "unlock" => generation = batchGen + 1)
    /\ [][/\ wpc' = "pick" => wpc \in {"drain", "pick"}
          /\ generation' # generation => wpc = "pick" /\ wpc' = "unlock"
          /\ wpc = "unlock" => wpc' \in {"unlock", "select"}]_vars

\* A rotation is under way for a batch of several events that were all
\* waiting when the first was dequeued.
C10_Witness ==
    /\ wpc = "unlock" /\ waiting >= 2 /\ Len(wreason) >= waiting
    /\ generation = batchGen + 1

\* C11 as stated (non-blocking producers): a producer that has a trigger to
\* send is never held up by rotateCh; with 16 events queued it drops its
\* event and returns.
C11_ProducersNeverBlock ==
    \A c \in Conns :
        pc[c] \in {"rr_send", "ce_send"} => Len(rotateCh) < RotateChCap

\* C12 (threshold rule): RecordRequest and RecordConnError add 1 to the
\* counter of the proxy that was current when they read it and to nothing
\* else, and go on to send a trigger exactly when the threshold is above 0
\* and the new count has reached it; rotateCh grows only by such a send, so
\* with the threshold off or not reached nothing is enqueued.
C12_ThresholdRule ==
    [][/\ \A c \in Conns :
            /\ (pc[c] \in {"rr_read", "ce_read"} /\ pc'[c] # pc[c])
                  => rcur'[c] = current
            /\ (pc[c] = "rr_add" /\ pc'[c] # "rr_add")
                  => /\ reqCount' = [reqCount EXCEPT ![rcur[c]] = @ + 1]
                     /\ connErrors' = connErrors
                     /\ rotateCh' = rotateCh
                     /\ pc'[c] = "rr_send"
                          <=> (/\ cfg.RotateRequests > 0
                               /\ reqCount[rcur[c]] + 1 >= cfg.RotateRequests)
            /\ (pc[c] = "ce_add" /\ pc'[c] # "ce_add")
                  => /\ connErrors' = [connErrors EXCEPT ![rcur[c]] = @ + 1]
                     /\ reqCount' = reqCount
                     /\ rotateCh' = rotateCh
                     /\ pc'[c] = "ce_send"
                          <=> (/\ cfg.RotateConnErrors > 0
                               /\ connErrors[rcur[c]] + 1 >= cfg.RotateConnErrors)
       /\ Len(rotateCh') > Len(rotateCh)
            => \E c \in Conns :
                 /\ pc[c] \in {"rr_send", "ce_send"} /\ pc'[c] # pc[c]
                 /\ rotateCh' = Append(rotateCh, IF pc[c] = "rr_send"
                                                 THEN "request-count"
                                                 ELSE "conn-errors")]_vars

\* With the request threshold off and a conn-error threshold of 2, two
\* requests have been counted without a trigger, the second conn error
\* has raised one, and a call is counting below the threshold after the
\* rotation.
C12_Witness ==
    /\ cfg.RotateRequests = 0 /\ cfg.RotateConnErrors = 2
    /\ generation = 2 /\ ~mu
    /\ \E p \in Proxies : reqCount[p] >= 2
    /\ connErrors[current] = 1
    /\ rotateCh = <<>> /\ wpc = "select"

\* C13 as stated (trigger liveness): with the rotation loop running and an
\* upstream alive, a trigger on rotateCh is eventually followed by a
\* rotation: generation grows beyond its value when the trigger was queued.
C13_TriggerLiveness ==
    \A g \in 1..MaxGen :
        (Len(rotateCh) > 0 /\ generation = g) ~> (generation > g)

\* C14 as stated (dedup): of the consecutive reports of one domain that fall
\* within less than the dedup window, exactly one raises HTTPErrors: no two
\* reports that raise it pass the dedup test less than a window apart, and
\* the report that passes the dedup test raises it.
C14_DedupExactlyOnce ==
    /\ [][\A c \in Conns :
            (pc[c] = "he_grace" /\ pc'[c] # "he_grace" /\ httpErrors' # httpErrors)
            => \/ counted[DomainOf(c)] = ZeroTime
               \/ recent[DomainOf(c)] - counted[DomainOf(c)]
                    >= cfg.HTTPErrorDedupWindow]_vars
    /\ [](\A d \in Domains :
            (/\ recent[d] # ZeroTime
             /\ \A c \in Conns :
                  pc[c] \in {"he_read", "he_grace"} => DomainOf(c) # d)
            => counted[d] = recent[d])

\* C14 amended: of such reports at most one raises HTTPErrors. A report
\* made less than a window after one that passed the dedup test returns
\* without changing anything; a report that passes the test raises
\* HTTPErrors by one unless it falls within the grace period after a
\* rotation, and then it raises nothing.
C14_DedupAtMostOnce ==
    [][\A c \in Conns :
         LET d == DomainOf(c)
             W == cfg.HTTPErrorDedupWindow
         IN  /\ (/\ pc[c] = "he_dedup" /\ pc'[c] # "he_dedup"
                 /\ recent[d] # ZeroTime /\ now - recent[d] < W)
                  => /\ pc'[c] = "idle"
                     /\ httpErrors' = httpErrors
                     /\ recent' = recent
                     /\ rotateCh' = rotateCh
             /\ (pc[c] = "he_grace" /\ pc'[c] # "he_grace")
                  => IF hrot[c] # ZeroTime /\ now - hrot[c] < W
                     THEN httpErrors' = httpErrors /\ pc'[c] = "idle"
                     ELSE /\ httpErrors' =
                               [httpErrors EXCEPT ![rcur[c]] = @ + 1]
                          /\ \/ counted[d] = ZeroTime
                             \/ recent[d] - counted[d] >= W]_vars

\* After a rotation a report has passed the dedup test and has been dropped
\* by the grace period: its domain has a fresh timestamp and no count.
C14_Witness ==
    \E d \in Domains :
        /\ \A c \in Conns : pc[c] = "idle"
        /\ rotatedAt # ZeroTime
        /\ recent[d] >= rotatedAt
        /\ counted[d] # recent[d]
        /\ httpErrors[current] = 0

\* C15 (grace period): a report made with no rotation running since it was
\* called, and tested less than a dedup window after the last non-startup
\* rotation, raises no HTTPErrors counter and queues no trigger, whatever
\* its destination; while rotatedAt is zero the grace period drops nothing
\* and the report that passed the dedup test counts against current.
C15_GracePeriod ==
    [][\A c \in Conns :
         (pc[c] = "he_grace" /\ pc'[c] # "he_grace" /\ clean[c])
         => /\ (/\ rotatedAt # ZeroTime
                 /\ now - rotatedAt < cfg.HTTPErrorDedupWindow)
                => /\ httpErrors' = httpErrors
                   /\ rotateCh' = rotateCh
                   /\ pc'[c] = "idle"
            /\ rotatedAt = ZeroTime
                => httpErrors'[current] = httpErrors[current] + 1]_vars

\* A report stamped after the rotation has just returned inside the grace
\* period: no counter is raised and the queue is empty.
C15_Witness ==
    \E d \in Domains :
        /\ \A c \in Conns : pc[c] = "idle"
        /\ generation > 1
        /\ rotatedAt # ZeroTime
        /\ now - rotatedAt < cfg.HTTPErrorDedupWindow
        /\ recent[d] = now /\ recent[d] > rotatedAt
        /\ counted[d] # recent[d]
        /\ \A p \in Proxies : httpErrors[p] = 0
        /\ rotateCh = <<>>

C17_Construction ==
    [][(wpc = "new" /\ wpc' # "new")
       => LET up == {p \in Loaded : alive[p]}
          IN  IF up = {}
              THEN wpc' = "failed" /\ current' = Nil /\ generation' = 0
              ELSE /\ wpc' = "built"
                   /\ generation' = 1
                   /\ rotatedAt' = ZeroTime
                   /\ current' \in up
                   /\ ~latencySort => \A q \in up : current' <= q
                   /\ latencySort =>
                        \A q \in up :
                            \/ latency[q] = 0
                            \/ /\ latency[current'] # 0
                               /\ latency[current'] <= latency[q]]_vars

\* A rotator has just been built on a pool whose first record was found
\* dead by the initial health check: current is a later record.
C17_Witness ==
    /\ wpc = "built"
    /\ ~alive[1]
    /\ current # Nil /\ current # 1
    /\ generation = 1
    /\ rotatedAt = ZeroTime

\* C18 (generation): no step lowers the generation; a pick that switches
\* current, the startup pick included, raises it by exactly one, and no
\* other step changes it.
C18_GenerationSteps ==
    [][LET picked == \/ wpc = "pick" /\ wpc' = "unlock"
                     \/ wpc = "new" /\ wpc' = "built"
       IN  /\ generation' >= generation
           /\ picked => generation' = generation + 1
           /\ ~picked => generation' = generation]_vars

\* The startup pick and two rotations have been counted.
C18_Witness ==
    /\ generation = 3
    /\ wpc = "select"
    /\ rotatedAt # ZeroTime
    /\ ~mu

\* C19 (counter reset): when a rotation to another proxy releases r.mu, the
\* step that makes the new generation readable, ReqCount, ConnErrors and
\* HTTPErrors of the new current are all zero, whatever RecordRequest and
\* RecordConnError calls are under way.
C19_CountersZeroAtUnlock ==
    [][(wpc = "unlock" /\ wpc' = "select" /\ wprev # current)
       => /\ reqCount'[current'] = 0
          /\ connErrors'[current'] = 0
          /\ httpErrors'[current'] = 0]_vars

\* C20 (I2): the generation is written only by a step that holds r.mu, so
\* its new value is readable from the release of r.mu on; the release that
\* ends a rotation from prev to another proxy leaves no pin on prev, and in
\* every state in which the generation is readable each pin is on the
\* current proxy, whatever ProxyFor calls are under way.
C20_PinsPurgedBeforeGeneration ==
    /\ [][/\ generation' # generation => mu'
          /\ (mu /\ ~mu' /\ wprev # Nil /\ wprev # current')
               => \A d \in Domains : pins'[d] # wprev]_vars
    /\ [](~mu => \A d \in Domains : pins[d] \in {Nil, current})

\* A rotation has ended and its generation is readable: the domain that was
\* pinned to the proxy rotated out has no pin.
C20_Witness ==
    /\ ~mu
    /\ wpc = "select"
    /\ generation = 2
    /\ \E d \in Domains : pinned[d] \notin {Nil, current} /\ pins[d] = Nil

\* C21 (rotation error): a pickNext that runs while no record of the pool is
\* alive changes nothing: current, generation, rotatedAt, the pins, the
\* counters and the queue are as before and r.mu is free; the loop is back
\* at its select, where a trigger that is queued later can be received.
C21_RotationError ==
    /\ [][(wpc = "pick" /\ wpc' # "pick" /\ \A p \in Loaded : ~alive[p])
          => /\ current' = current
             /\ generation' = generation
             /\ rotatedAt' = rotatedAt
             /\ pins' = pins
             /\ counterVars' = counterVars
             /\ rotateCh' = rotateCh
             /\ ~mu'
             /\ wpc' = "select"]_vars
    /\ []((errGen # 0 /\ wpc = "select" /\ Len(rotateCh) > 0)
            => ENABLED LoopReceive)

\* A pickNext has failed with every record dead while a domain was pinned,
\* and a trigger queued after that has rotated the pool.
C21_Witness ==
    /\ errGen # 0
    /\ generation > errGen
    /\ wpc = "select"
    /\ \E d \in Domains : pinned[d] # Nil

\* C22 as stated (shutdown): once Stop has closed the stop channel, its
\* wg.Wait() eventually returns: the rotation loop and the interval loop
\* both exit, whatever is on rotateCh.
C22_StopReturns == stop ~> StopReturns

\* How far a handler is after its dial: a position reached later in
\* handleCONNECT / handleHTTP has a higher rank.
PathRank(p) ==
    CASE p \in {"rr_read", "ce_read"} -> 1
      [] p \in {"rr_add", "ce_add"} -> 2
      [] p \in {"rr_send", "ce_send"} -> 3
      [] p \in {"tunnel", "ce_ret"} -> 4
      [] p = "close" -> 5
      [] p = "done" -> 6
      [] OTHER -> 0

\* The positions of a handler inside and after its RecordConnError call.
ErrorPath == {"ce_read", "ce_add", "ce_send", "ce_ret", "close"}

\* The positions of a handler inside and after its RecordRequest call.
RequestPath == {"rr_read", "rr_add", "rr_send", "tunnel"}

\* A step of connection c after its dial keeps to the path the dial put it
\* on and moves forward on it, so the Record call of the path is made once
\* and the other never: only the Add of RecordConnError raises ConnErrors,
\* only the Add of RecordRequest raises ReqCount, each by one; the
\* connection ends by taking one off ActiveConns of the proxy it captured.
AfterDial(c) ==
    /\ (pc[c] \in ErrorPath /\ pc'[c] # pc[c])
         => /\ pc'[c] \in ErrorPath \cup {"done"}
            /\ PathRank(pc'[c]) > PathRank(pc[c])
            /\ reqCount' = reqCount
            /\ IF pc[c] = "ce_add"
               THEN connErrors' = [connErrors EXCEPT ![rcur[c]] = @ + 1]
               ELSE connErrors' = connErrors
    /\ (pc[c] \in RequestPath /\ pc'[c] # pc[c])
         => /\ pc'[c] \in RequestPath \cup {"done"}
            /\ PathRank(pc'[c]) > PathRank(pc[c])
            /\ connErrors' = connErrors
            /\ IF pc[c] = "rr_add"
               THEN reqCount' = [reqCount EXCEPT ![rcur[c]] = @ + 1]
               ELSE reqCount' = reqCount
    /\ (pc[c] \in {"tunnel", "close"} /\ pc'[c] # pc[c])
         => /\ pc'[c] = "done"
            /\ activeConns' = [activeConns EXCEPT ![px[c]] = @ - 1]

\* C23 as stated (dial failure): a failed dial puts the handler on the
\* RecordConnError path, which makes that call once, never calls
\* RecordRequest, and ends with 502 answered and ActiveConns of the captured
\* proxy taken down again; a successful dial puts it on the RecordRequest
\* path, which makes that call once and never calls RecordConnError.
C23_DialOutcome ==
    [][\A c \in Conns :
         /\ AfterDial(c)
         /\ (pc[c] = "dial" /\ pc'[c] # "dial")
              => IF via'[c] = Nil
                 THEN pc'[c] = "ce_read"
                 ELSE pc'[c] = "rr_read"
         /\ (pc[c] = "close" /\ pc'[c] # "close" /\ via[c] = Nil)
              => resp[c] = "502"]_vars

\* C23 amended: as stated, except that a plain HTTP request whose dial
\* succeeded but whose write to the upstream failed is put on the
\* RecordConnError path too: that call is made once, RecordRequest never,
\* and the client is answered nothing; a CONNECT whose dial succeeded is
\* answered 200 and always goes on to RecordRequest.
C23_DialOrWriteOutcome ==
    [][\A c \in Conns :
         /\ AfterDial(c)
         /\ (pc[c] = "dial" /\ pc'[c] # "dial")
              => IF via'[c] = Nil
                 THEN pc'[c] = "ce_read" /\ resp'[c] = "none"
                 ELSE \/ /\ pc'[c] = "rr_read"
                         /\ resp'[c] =
                              IF method[c] = "CONNECT" THEN "200" ELSE "none"
                      \/ /\ method[c] # "CONNECT"
                         /\ pc'[c] = "ce_read"
                         /\ resp'[c] = "none"
         /\ (pc[c] = "close" /\ pc'[c] # "close")
              => resp[c] = IF via[c] = Nil THEN "502" ELSE "none"]_vars

\* One connection has ended after a failed dial, answered 502 and counted
\* as a conn error; another, a plain HTTP request, has ended after its
\* write to the upstream failed, answered nothing.
C23_Witness ==
    \E c, e \in Conns :
        /\ c # e
        /\ pc[c] = "done" /\ resp[c] = "502"
        /\ pc[e] = "close" /\ via[e] # Nil /\ resp[e] = "none"
        /\ \A p \in Proxies : activeConns[p] = IF p = px[e] THEN 1 ELSE 0

\* C24 (auth failure): with both credentials configured, a request whose
\* Proxy-Authorization is not "Basic" followed by the base64 of
\* Username ":" Password is answered 407 and its connection ends there: no
\* pin, no counter, no lock and no queue changes, and it takes no further
\* step; with that header, or with no credentials configured, the request
\* goes on to the selection with nothing answered.
C24_AuthFailure ==
    [][\A c \in Conns :
         /\ (pc[c] = "idle" /\ pc'[c] # "idle")
              => IF /\ srvCfg.Username # <<>>
                    /\ srvCfg.Password # <<>>
                    /\ hdr'[c] # [scheme |-> "Basic", valid |-> TRUE,
                                  text |-> srvCfg.Username \o <<":">>
                                             \o srvCfg.Password]
                 THEN /\ resp'[c] = "407"
                      /\ pc'[c] = "done"
                      /\ px'[c] = Nil
                      /\ pins' = pins /\ pinsMu' = pinsMu
                      /\ counterVars' = counterVars
                      /\ rotateCh' = rotateCh
                 ELSE pc'[c] = "select" /\ resp'[c] = "none"
         /\ pc[c] = "done" => pc'[c] = "done"]_vars

\* With credentials configured one request has been turned away with 407
\* and has left no trace, and another, with the matching header, is being
\* tunnelled.
C24_Witness ==
    \E c, e \in Conns :
        /\ authRequired
        /\ pc[c] = "done" /\ resp[c] = "407" /\ hdr[c] # NoHeader
        /\ pc[e] = "tunnel" /\ resp[e] = "200"
        /\ \A p \in Proxies : activeConns[p] = IF p = px[e] THEN 1 ELSE 0

\* C25 (healthy status): a POST /api/status whose status is in [200, 400)
\* is answered rotated=false, and one with a wrong method, a body that does
\* not decode or an empty destination is answered its error; none of them
\* touches the rotator: no dedup timestamp, no counter, no trigger, and the
\* handler is finished.
C25_HealthyNoEffect ==
    [][(pc[1] = "idle" /\ gen0[1] = 0 /\ resp'[1] # resp[1]) =>
       \A m \in APIMethods, ok \in BOOLEAN, st \in StatusCodes,
          d \in ReportedDestinations :
         (/\ HandleStatus(1, m, ok, st, d)
          /\ (m # "POST" \/ ~ok \/ d = <<>> \/ (200 <= st /\ st < 400)))
         => /\ recent' = recent
            /\ counterVars' = counterVars
            /\ rotateCh' = rotateCh
            /\ <<current, generation, rotatedAt, pins>>'
                 = <<current, generation, rotatedAt, pins>>
            /\ pc'[1] = "idle" /\ gen0'[1] = 0
            /\ resp'[1] = IF m # "POST" THEN "405"
                          ELSE IF ~ok \/ d = <<>> THEN "400"
                          ELSE "rotated=false"]_vars

\* The first request the API has served was a healthy report: it has been
\* answered rotated=false and the rotator is as New left it.
C25_Witness ==
    /\ resp[1] = "rotated=false"
    /\ pc[1] = "idle" /\ gen0[1] = 0
    /\ calls = 0
    /\ \A d \in Domains : recent[d] = ZeroTime
    /\ \A p \in Proxies : httpErrors[p] = 0
    /\ rotateCh = <<>>

\* C26 as stated (rotated): a POST /api/status with an unhealthy status
\* calls RecordHTTPError once, and its answer says rotated=true exactly when
\* that call sent a trigger, that is when the report caused a rotation.
C26_RotatedIffTriggered ==
    [][/\ (pc[1] = "st_gen" /\ pc'[1] # "st_gen") => calls' = calls + 1
       /\ (gen0[1] # 0 /\ gen0'[1] = 0)
            => /\ calls' = calls
               /\ (resp'[1] = "rotated=true") <=> sent[1]]_vars

\* The position of record p in the file.
FilePosition(p) == IndexOf(proxies, p, 1)

\* The records of the pool that are alive.
AliveRecords == { p \in Loaded : alive[p] }

\* C27 (alive filter): whatever records the monitor has marked dead, a
\* snapshot holds exactly the others, each once, and without latency-sort
\* in the order of the file.
C27_AliveFilter ==
    /\ PoolAlive(proxies, alive, latency, latencySort) # {}
    /\ \A out \in PoolAlive(proxies, alive, latency, latencySort) :
         /\ { out[i] : i \in DOMAIN out } = AliveRecords
         /\ \A i, j \in DOMAIN out : i # j => out[i] # out[j]
         /\ ~latencySort =>
              \A i, j \in DOMAIN out :
                  i < j => FilePosition(out[i]) < FilePosition(out[j])

\* Without latency-sort the first record of the file is dead, the others
\* are alive, and the rotator has rotated onto one of them from a snapshot.
C27_Witness ==
    /\ ~latencySort
    /\ ~alive[proxies[1]]
    /\ Cardinality(AliveRecords) = NProxies - 1
    /\ generation >= 3
    /\ current \in AliveRecords
    /\ wpc = "select"

\* C28 (latency sort): with latency-sort a snapshot is a permutation of the
\* alive records in which the measured latencies ascend and every record
\* without a measured latency comes after every record with one.
C28_LatencySort ==
    latencySort =>
        /\ PoolAlive(proxies, alive, latency, latencySort) # {}
        /\ \A out \in PoolAlive(proxies, alive, latency, latencySort) :
             /\ Len(out) = Cardinality(AliveRecords)
             /\ { out[i] : i \in DOMAIN out } = AliveRecords
             /\ \A i, j \in DOMAIN out :
                  i < j =>
                     /\ (latency[out[i]] > 0 /\ latency[out[j]] > 0)
                           => latency[out[i]] <= latency[out[j]]
                     /\ latency[out[i]] = 0 => latency[out[j]] = 0

\* With latency-sort every record is alive, the first of the file has no
\* measured latency, the second is slower than the third, and the rotator
\* has rotated from a snapshot.
C28_Witness ==
    /\ latencySort
    /\ Cardinality(AliveRecords) = NProxies
    /\ latency[proxies[1]] = 0
    /\ latency[proxies[2]] > latency[proxies[3]]
    /\ latency[proxies[3]] > 0
    /\ generation >= 3
    /\ wpc = "select"

\* C30 (monitor gating): a probe of a record leaves its latency at 0 when
\* it failed and at the measured time when it succeeded; it sets the
\* liveness to its outcome when UpdateLiveness is on and leaves it alone
\* when it is off; the other records are not touched.
C30_MonitorGating ==
    [][\A p \in Loaded, ok \in BOOLEAN, lat \in 1..MaxLatency :
         MonitorCheck(p, ok, lat)
         => /\ latency'[p] = (IF ok THEN lat ELSE 0)
            /\ alive'[p] = (IF updateLiveness THEN ok ELSE alive[p])
            /\ \A q \in Loaded \ {p} :
                 alive'[q] = alive[q] /\ latency'[q] = latency[q]]_vars

\* With UpdateLiveness off, probes have failed and succeeded: a record whose
\* probe failed is still alive with latency 0, another has a measured
\* latency.
C30_Witness ==
    /\ ~updateLiveness
    /\ \A p \in Loaded : alive[p]
    /\ latency[proxies[1]] = 0
    /\ latency[proxies[2]] = MaxLatency
    /\ generation >= 2

\* The host:port parts of the entries.
HostPorts == { "h1:80", "h2:81", "h3:82", "h4:83", "h5:84" }

\* The entry a line holds: the line without the whitespace around it.
Entry(line) == TrimSpace(line)

\* The grammar of a valid entry: [scheme://][user[:pass]@]host:port with
\* one of the three schemes, in either case.
ValidEntry(line) ==
    LET e == Entry(line)
    IN  \/ \E h \in HostPorts : e = <<h>>
        \/ \E w \in {"http", "HTTP", "https", "HTTPS", "socks5"}, h \in HostPorts :
               \/ e = <<w, "://", h>>
               \/ \E u \in UserInfos : e = <<w, "://", u, h>>

\* The scheme of a valid entry: the one it names, http for a bare host:port.
EntryScheme(line) ==
    LET e == Entry(line)
    IN  CASE Len(e) = 1 -> "http"
          [] e[1] \in {"http", "HTTP"} -> "http"
          [] e[1] \in {"https", "HTTPS"} -> "https"
          [] OTHER -> "socks5"

\* The host:port of a valid entry: its last part.
EntryHost(line) == Entry(line)[Len(Entry(line))]

\* C29 (load): LoadFile fails exactly when the file holds no valid entry,
\* and then the pool is as New left it; otherwise the pool holds one record
\* per valid entry, in the order of the file, with the ids 1..n, alive,
\* without a measured latency, with the entry's host and its scheme, http
\* for a bare host:port.
C29_Load ==
    loadErr # "pending" =>
        LET valid == SelectSeq(file, ValidEntry)
            n == Len(valid)
        IN  /\ (loadErr = "error") <=> (n = 0)
            /\ n = 0 => proxies = <<>>
            /\ n > 0 =>
                 /\ Len(proxies) = n
                 /\ \A i \in 1..n :
                      /\ proxies[i] = i
                      /\ alive[i]
                      /\ latency[i] = 0
                      /\ Scheme[i] = EntryScheme(valid[i])
                      /\ Host[i] = EntryHost(valid[i])

\* A file with a comment, a bare host:port and an entry with an unsupported
\* scheme has been loaded: the pool holds the one record.
C29_Witness ==
    /\ file = << <<"#", "x">>, <<"h5:84">>, <<"trojan", "://", "h4:83">> >>
    /\ loadErr = "nil"
    /\ Len(proxies) = 1
    /\ Scheme[1] = "http"

\* C31 as stated (no deadlock between selection and rotation): no state is
\* reached in which a ProxyFor call holds r.pinsMu and waits for r.mu while
\* pickNext holds r.mu and waits for r.pinsMu.
C31_NoLockCycle ==
    ~ \E c \in Callers :
          /\ pinsMu = c /\ pc[c] = "current"
          /\ mu /\ wpc = "unlock"
          /\ wprev # Nil /\ wprev # current

\* C32 as stated (counter attribution): the ReqCount and ConnErrors
\* increments a connection causes land on the upstream the connection
\* captured when it selected, whatever rotation happened since.
C32_CounterAttribution ==
    [][\A c \in Conns :
         /\ (pc[c] = "rr_add" /\ pc'[c] # "rr_add")
              => reqCount'[px[c]] = reqCount[px[c]] + 1
         /\ (pc[c] = "ce_add" /\ pc'[c] # "ce_add")
              => connErrors'[px[c]] = connErrors[px[c]] + 1]_vars

\* C33 as stated (stale triggers): a threshold trigger leads to a rotation
\* only while the upstream whose counter raised it is still current: with
\* thresholds as the only source of triggers, the upstream a rotation leaves
\* has a counter at its threshold.
C33_NoStaleRotation ==
    [][generation' # generation
         => \/ Crossed(cfg.RotateRequests, reqCount[current])
            \/ Crossed(cfg.RotateConnErrors, connErrors[current])]_vars

\* C34 (grace drop keeps the dedup stamp): a report that passes the dedup
\* test stamps its domain with the time of the test; nothing changes the
\* stamp while the report goes on, and the grace period drops the report
\* without touching it; so a later report of the domain, less than a window
\* after a stamp that was not counted, is dropped by the dedup test, also
\* once the grace period is over.
C34_GraceDropKeepsStamp ==
    [][\A c \in Conns :
         LET d == DomainOf(c)
             W == cfg.HTTPErrorDedupWindow
         IN  /\ (pc[c] = "he_dedup" /\ pc'[c] = "he_read") => recent'[d] = now
             /\ pc[c] \in {"he_read", "he_grace"} => recent'[d] = recent[d]
             /\ (/\ pc[c] = "he_grace" /\ pc'[c] # "he_grace"
                 /\ hrot[c] # ZeroTime /\ now - hrot[c] < W)
                  => /\ pc'[c] = "idle"
                     /\ recent'[d] # ZeroTime
                     /\ counted'[d] # recent'[d]
             /\ (/\ pc[c] = "he_dedup" /\ pc'[c] # "he_dedup"
                 /\ recent[d] # ZeroTime /\ counted[d] # recent[d]
                 /\ now - recent[d] < W)
                  => /\ pc'[c] = "idle"
                     /\ recent' = recent
                     /\ httpErrors' = httpErrors
                     /\ rotateCh' = rotateCh]_vars

\* A report was dropped by the grace period after the rotation; the grace
\* period is over, and a report of the same domain is at its dedup test less
\* than a window after the stamp the dropped report left.
C34_Witness ==
    \E c \in Conns :
        LET d == DomainOf(c)
            W == cfg.HTTPErrorDedupWindow
        IN  /\ pc[c] = "he_dedup"
            /\ rotatedAt # ZeroTime /\ now - rotatedAt >= W
            /\ recent[d] > rotatedAt
            /\ counted[d] # recent[d]
            /\ now - recent[d] < W

\* C35 (fixed dedup window): only a report that passes the dedup test
\* changes the timestamp of a domain, and it sets it to the time of the
\* test; a report dropped by the test leaves every timestamp alone; so a
\* report passes as soon as a window has elapsed since the last report of
\* its domain that passed, however many were dropped in between.
C35_FixedWindow ==
    [][/\ \A e \in Domains :
            recent'[e] # recent[e]
            => /\ recent'[e] = now
               /\ \E c \in Conns :
                    /\ pc[c] = "he_dedup" /\ pc'[c] = "he_read"
                    /\ DomainOf(c) = e
       /\ \A c \in Conns :
            (pc[c] = "he_dedup" /\ pc'[c] # "he_dedup")
            => LET d == DomainOf(c)
                   W == cfg.HTTPErrorDedupWindow
               IN  IF recent[d] # ZeroTime /\ now - recent[d] < W
                   THEN pc'[c] = "idle" /\ recent' = recent
                   ELSE pc'[c] = "he_read" /\ recent'[d] = now]_vars

\* Three reports of one domain and none of another: the first was counted,
\* the second was dropped by the dedup test, and the third has just passed
\* it exactly one window after the first.
C35_Witness ==
    \E c \in Conns :
        LET d == DomainOf(c)
        IN  /\ pc[c] = "he_read"
            /\ calls = 3
            /\ recent[d] = now
            /\ counted[d] # ZeroTime
            /\ now - counted[d] = cfg.HTTPErrorDedupWindow
            /\ \A e \in Domains \ {d} : recent[e] = ZeroTime
            /\ httpErrors[current] = 1
            /\ generation = 1

\* Destinations with several colons, with none, and in upper case
\* (TestExtractDomain).
KeyInputs ==
    Hosts \cup { <<"A", "b", ":", "8080">>, <<"a", ":", "b", ":", "1">>,
                 <<"B">>, <<":", "1">>, <<>> }

\* The pin key of a destination as the specification gives it: the
\* destination without the suffix that starts at its last ":", in lower case.
KeyOf(d) ==
    LET colons == { i \in 1..Len(d) : d[i] = ":" }
        cut == IF colons = {} THEN Len(d)
               ELSE (CHOOSE i \in colons : \A j \in colons : j <= i) - 1
    IN  [i \in 1..cut |-> CASE d[i] = "A" -> "a"
                            [] d[i] = "B" -> "b"
                            [] OTHER -> d[i]]

\* C36 (pin key): extractDomain gives the destination in lower case without
\* the suffix from its last ":"; ProxyFor reads and writes the pin under
\* that key and no other, so calls whose destinations differ only in port
\* or letter case share the pin and, with no rotation in between, return
\* the same upstream; RecordHTTPError deduplicates on that key.
C36_PinKey ==
    /\ [](\A d \in KeyInputs : extractDomain(d) = KeyOf(d))
    /\ [][\A c \in Callers :
            LET k == KeyOf(dest[c])
                W == cfg.HTTPErrorDedupWindow
            IN  /\ (pc[c] = "select" /\ pc'[c] = "selected") => px'[c] = pins[k]
                /\ (pc[c] = "current" /\ pc'[c] = "selected")
                     => /\ pins'[k] = px'[c]
                        /\ \A e \in Domains \ {k} : pins'[e] = pins[e]
                /\ (ProxyForReturns(c) /\ clean'[c] /\ last[k] # Nil)
                     => px'[c] = last[k]
                /\ (pc[c] = "he_dedup" /\ pc'[c] # "he_dedup")
                     => IF recent[k] # ZeroTime /\ now - recent[k] < W
                        THEN pc'[c] = "idle" /\ recent' = recent
                        ELSE recent' = [recent EXCEPT ![k] = now]]_vars

\* Two calls for destinations that differ in port and letter case have
\* returned the same upstream, the second from the pin the first left, and
\* a report for the first destination has stamped the key for both.
C36_Witness ==
    \E c, e \in Callers :
        /\ dest[c] = <<"A", ":", "1">> /\ dest[e] = <<"a", ":", "2">>
        /\ pc[c] = "selected" /\ pc[e] = "selected"
        /\ repeat[e]
        /\ px[c] = px[e] /\ pins[<<"a">>] = px[e]
        /\ recent[<<"a">>] # ZeroTime

\* C37 (current is never nil): once New has succeeded current is never nil,
\* a ProxyFor call never returns nil and no handler is at its "no available
\* upstream proxy" answer, whatever the monitor has marked dead.
C37_CurrentNeverNil ==
    wpc \notin {"new", "failed"} =>
        /\ current # Nil
        /\ \A c \in Conns :
             /\ pc[c] = "selected" => px[c] # Nil
             /\ ~ ENABLED NoUpstream(c)

\* Every upstream is dead, a rotation has failed for want of an alive one,
\* and a ProxyFor call has returned the current upstream.
C37_Witness ==
    /\ \A p \in Loaded : ~alive[p]
    /\ wpc = "select"
    /\ generation >= 2 /\ errGen = generation
    /\ pc[1] = "selected"
    /\ px[1] = current /\ current # Nil

\* C38 (pins target current): whenever no rotation holds r.mu, every pin
\* targets the current upstream.
C38_PinsTargetCurrent ==
    ~mu => \A d \in Domains : pins[d] \in {Nil, current}

\* After a rotation to another upstream one domain is pinned to the new
\* current upstream and the pin of another domain, made to the previous
\* upstream, is gone.
C38_Witness ==
    /\ ~mu
    /\ generation >= 2
    /\ \E d1, d2 \in Domains :
         /\ pins[d1] = current /\ current # Nil
         /\ pinned[d2] \notin {Nil, current}
         /\ pins[d2] = Nil

\* current is the only alive record of the pool.
OnlyCurrentAlive ==
    /\ current # Nil
    /\ \A p \in Loaded : alive[p] <=> p = current

\* C39 (same-upstream rotation): a pickNext that finds current as the only
\* alive upstream leaves current as it is and removes no pin, and still
\* increases generation by 1, stamps rotatedAt with the present time and
\* resets the three counters of the upstream to 0.
C39_SameUpstreamRotation ==
    [][/\ (wpc = "pick" /\ wpc' = "unlock" /\ OnlyCurrentAlive) =>
            /\ current' = current
            /\ pins' = pins
            /\ generation' = generation + 1
            /\ rotatedAt' = now
            /\ reqCount'[current] = 0
            /\ connErrors'[current] = 0
            /\ httpErrors'[current] = 0
       /\ (wpc = "unlock" /\ wpc' = "select" /\ wprev = current) =>
            /\ current' = current
            /\ pins' = pins
            /\ generation' = generation
            /\ rotatedAt' = rotatedAt]_vars

\* pickNext is about to run with current the only alive upstream, a domain
\* pinned to it, its three counters above 0 and the last rotation in the past.
C39_Witness ==
    /\ wpc = "pick" /\ ~mu
    /\ OnlyCurrentAlive
    /\ \E d \in Domains : pins[d] = current
    /\ reqCount[current] > 0
    /\ connErrors[current] > 0
    /\ httpErrors[current] > 0
    /\ rotatedAt # now

\* The reports of domain d that have passed the dedup test and not returned.
PastDedup(d) ==
    {c \in Callers : pc[c] \in {"he_read", "he_grace", "he_send"} /\ DomainOf(c) = d}

\* C40 (concurrent dedup): of the RecordHTTPError calls that goroutines make
\* for one domain within one dedup window exactly one passes the dedup test,
\* the first to take it, which records its time in the same step; every
\* other is dropped; and at most one of them increments HTTPErrors.
C40_ConcurrentDedup ==
    /\ [](\A d \in Domains : Cardinality(PastDedup(d)) <= 1)
    /\ [][/\ \A d \in Domains : recent[d] # ZeroTime => recent'[d] = recent[d]
          /\ \A c \in Callers :
               /\ (pc[c] = "he_dedup" /\ pc'[c] = "he_read") =>
                     /\ recent[DomainOf(c)] = ZeroTime
                     /\ recent'[DomainOf(c)] = now
               /\ (pc[c] = "he_dedup" /\ pc'[c] = "idle") =>
                     recent[DomainOf(c)] # ZeroTime
               /\ (pc[c] = "he_grace" /\ pc'[c] # "he_grace" /\ rcur[c] # Nil
                   /\ httpErrors'[rcur[c]] = httpErrors[rcur[c]] + 1) =>
                     counted[DomainOf(c)] = ZeroTime]_vars

\* Two goroutines report two destinations of one domain at the same time:
\* one has passed the dedup test and the other is about to take it.
C40_Witness ==
    /\ pc[1] = "he_read"
    /\ pc[2] = "he_dedup"
    /\ DomainOf(1) = DomainOf(2)
    /\ dest[1] # dest[2]
    /\ recent[DomainOf(1)] = now
    /\ counted[DomainOf(1)] = ZeroTime

====
